---- MODULE Spec2Model ----
(***************************************************************************)
(* Model of the device-allocation engine of main.py: the nodes roster, the *)
(* commit_history snapshots, the audit log and the meshtastic info cache,  *)
(* with the operations add_node_manual, remove_node, auto_connect_loop     *)
(* (dry run and commit) and undo_last_commit.                              *)
(*                                                                         *)
(* Python strings whose characters the code inspects (device identifiers,  *)
(* long_name) are sequences of one-character strings.  Other TEXT cells    *)
(* are TLA+ strings, SQL NULL / Python None being NullText.  Numeric cells *)
(* are <<n>>, SQL NULL being <<>>.  The nodes, logs and commit_history     *)
(* tables are sequences in rowid order (the AUTOINCREMENT id is the        *)
(* position: rows are only appended, updated in place or deleted).         *)
(***************************************************************************)
EXTENDS Integers, Sequences, FiniteSets, TLC

VARIABLES nodes, logs, commit_history, MESHTASTIC_INFO_CACHE, now, last, preCommit,
          POSITIONS_CACHE, REDIS_CLIENT, pending

vars == <<nodes, logs, commit_history, MESHTASTIC_INFO_CACHE, now, last, preCommit,
          POSITIONS_CACHE, REDIS_CLIENT, pending>>

----------------------------------------------------------------------------
(* Bounds of the model *)

MaxCands == 3
MaxCommits == 2
MaxLogs == 3
MaxTime == 8

----------------------------------------------------------------------------
(* Python string helpers *)

LowerChars ==
  <<"a","b","c","d","e","f","g","h","i","j","k","l","m",
    "n","o","p","q","r","s","t","u","v","w","x","y","z">>

UpperChars ==
  <<"A","B","C","D","E","F","G","H","I","J","K","L","M",
    "N","O","P","Q","R","S","T","U","V","W","X","Y","Z">>

CharIn(c, s) == \E i \in 1..Len(s) : s[i] = c

PosOf(c, s) == CHOOSE i \in 1..Len(s) : s[i] = c

UpperChar(c) == IF CharIn(c, LowerChars) THEN UpperChars[PosOf(c, LowerChars)] ELSE c

LowerChar(c) == IF CharIn(c, UpperChars) THEN LowerChars[PosOf(c, UpperChars)] ELSE c

upper(s) == [i \in 1..Len(s) |-> UpperChar(s[i])]

(* Mutant: the text is compared as it is, case-sensitively *)
lower_Keep(s) == s

lower(s) == [i \in 1..Len(s) |-> LowerChar(s[i])]

replace(s, c) == SelectSeq(s, LAMBDA x : x # c)

startswith(s, p) == Len(s) >= Len(p) /\ SubSeq(s, 1, Len(p)) = p

RECURSIVE lstrip(_)
lstrip(s) == IF s # <<>> /\ Head(s) = " " THEN lstrip(Tail(s)) ELSE s

RECURSIVE rstrip(_)
rstrip(s) ==
  IF s # <<>> /\ s[Len(s)] = " " THEN rstrip(SubSeq(s, 1, Len(s) - 1)) ELSE s

strip(s) == rstrip(lstrip(s))

RECURSIVE JoinPairs(_)
JoinPairs(s) ==
  IF Len(s) <= 2 THEN s
  ELSE SubSeq(s, 1, 2) \o <<":">> \o JoinPairs(SubSeq(s, 3, Len(s)))

(* Mutant: nothing is dropped *)
Dedupe_Keep(vs, seen) == vs

RECURSIVE Dedupe(_, _)
Dedupe(vs, seen) ==
  IF vs = <<>> THEN <<>>
  ELSE IF Head(vs) \in seen THEN Dedupe(Tail(vs), seen)
  ELSE <<Head(vs)>> \o Dedupe(Tail(vs), seen \cup {Head(vs)})

BlePrefix == <<"b","l","e",":">>

ComPrefix == <<"C","O","M">>

generate_ble_variants(address) ==
  LET a == strip(address)
      no_colon == replace(replace(a, ":"), "-")
      variants == << a, upper(no_colon), lower(no_colon), upper(JoinPairs(no_colon)),
                     BlePrefix \o a, BlePrefix \o no_colon >>
  IN Dedupe(variants, {})

IsCom(dev) == startswith(upper(dev), ComPrefix)

(* generate_ble_variants, tabulated once for the identifiers of the model   *)
(* and their variants                                                       *)
KnownIds ==
  LET ids == { <<"a","1",":","b","2">>, <<"C","O","M","5">>, <<"Z">> }
  IN ids \cup UNION { {generate_ble_variants(d)[i] : i \in 1..Len(generate_ble_variants(d))} : d \in ids }

VariantTable == [d \in KnownIds |-> generate_ble_variants(d)]

Variants(d) == IF d \in KnownIds THEN VariantTable[d] ELSE generate_ble_variants(d)

----------------------------------------------------------------------------
(* Values *)

NullText == "<NULL>"

NullStr == << "<NULL>" >>

NullNum == << >>

GlobalKey == <<"_","g","l","o","b","a","l">>

BleId == <<"a","1",":","b","2">>

ComId == <<"C","O","M","5">>

SeedId == <<"s","e","e","d","1">>

ZId == <<"Z">>

SeedName == <<"S","e","e","d">>

(* Truthiness of a Python str / None held as a character sequence *)
TruthyStr(s) == s # NullStr /\ s # <<>>

----------------------------------------------------------------------------
(* Output of the meshtastic tool.  An output is the text s in which the     *)
(* placeholder %s stands for the identifier id.                             *)

OutEmpty == [s |-> "", id |-> <<>>]

OutText == [s |-> "Connected to radio", id |-> <<>>]

OutNodes(d) == [s |-> "{\"nodes\": {\"%s\": {\"user\": {}}}}", id |-> d]

OutNodesEmpty == [s |-> "{\"nodes\": {}}", id |-> <<>>]

OutEmptyDict == [s |-> "{}", id |-> <<>>]

OutList == [s |-> "[1]", id |-> <<>>]

(* A payload whose nodes entry is a list, not a mapping *)
OutNodesList == [s |-> "{\"nodes\": [1]}", id |-> <<>>]

(* Payloads under the other common keys, a mapping without any of them, and *)
(* a number                                                                 *)
OutDevices(d) == [s |-> "{\"devices\": {\"%s\": {}}}", id |-> d]

OutPeersNodes(d) == [s |-> "{\"peers\": {\"p\": {}}, \"nodes\": {\"%s\": {}}}", id |-> d]

OutNodesEmptyDevices(d) == [s |-> "{\"nodes\": {}, \"devices\": {\"%s\": {}}}", id |-> d]

OutOwner == [s |-> "{\"owner\": \"x\"}", id |-> <<>>]

OutNumber == [s |-> "5", id |-> <<>>]

(* str(e) of the FileNotFoundError subprocess.run raises without the tool *)
OutErrno == [s |-> "[Errno 2] No such file or directory: 'meshtastic'", id |-> <<>>]

OutKinds == {"text", "nodes", "nodes_empty", "empty_dict", "list"}

OutOf(kind, d) ==
  CASE kind = "text" -> OutText
    [] kind = "nodes" -> OutNodes(d)
    [] kind = "nodes_empty" -> OutNodesEmpty
    [] kind = "empty_dict" -> OutEmptyDict
    [] kind = "list" -> OutList
    [] kind = "nodes_list" -> OutNodesList
    [] kind = "not_installed" -> OutErrno
    [] kind = "devices" -> OutDevices(d)
    [] kind = "peers_nodes" -> OutPeersNodes(d)
    [] kind = "nodes_empty_devices" -> OutNodesEmptyDevices(d)
    [] kind = "owner" -> OutOwner
    [] kind = "number" -> OutNumber
    [] OTHER -> OutEmpty

(* A decoded JSON value: type t, size n (number of members; the value of a  *)
(* number), and for a mapping its keys with one summary per member: the     *)
(* member's type, size and, for a mapping, its keys.                        *)
JMember(t, n, ids) == [t |-> t, n |-> n, ids |-> ids]

EmptyDict == JMember("dict", 0, <<>>)

NotJson == [ok |-> FALSE, t |-> "none", n |-> 0, keys |-> <<>>, vals |-> <<>>]

Decoded(t, n, keys, vals) == [ok |-> TRUE, t |-> t, n |-> n, keys |-> keys, vals |-> vals]

(* json.loads on the outputs above; ok = FALSE is a decode error *)
JsonLoads(raw) ==
  CASE raw.s = "{\"nodes\": {\"%s\": {\"user\": {}}}}" ->
         Decoded("dict", 1, <<"nodes">>, << JMember("dict", 1, <<raw.id>>) >>)
    [] raw.s = "{\"nodes\": {}}" -> Decoded("dict", 1, <<"nodes">>, << EmptyDict >>)
    [] raw.s = "{\"nodes\": [1]}" ->
         Decoded("dict", 1, <<"nodes">>, << JMember("list", 1, <<>>) >>)
    [] raw.s = "{}" -> Decoded("dict", 0, <<>>, <<>>)
    [] raw.s = "[1]" -> Decoded("list", 1, <<>>, <<>>)
    [] raw.s = "{\"devices\": {\"%s\": {}}}" ->
         Decoded("dict", 1, <<"devices">>, << JMember("dict", 1, <<raw.id>>) >>)
    [] raw.s = "{\"peers\": {\"p\": {}}, \"nodes\": {\"%s\": {}}}" ->
         Decoded("dict", 2, <<"peers", "nodes">>,
                 << JMember("dict", 1, << <<"p">> >>), JMember("dict", 1, <<raw.id>>) >>)
    [] raw.s = "{\"nodes\": {}, \"devices\": {\"%s\": {}}}" ->
         Decoded("dict", 2, <<"nodes", "devices">>,
                 << EmptyDict, JMember("dict", 1, <<raw.id>>) >>)
    [] raw.s = "{\"owner\": \"x\"}" ->
         Decoded("dict", 1, <<"owner">>, << JMember("str", 1, <<>>) >>)
    [] raw.s = "5" -> Decoded("int", 5, <<>>, <<>>)
    [] OTHER -> NotJson

HasKey(data, k) == \E i \in 1..Len(data.keys) : data.keys[i] = k

GetKey(data, k) == data.vals[CHOOSE i \in 1..Len(data.keys) : data.keys[i] = k]

(* A parsed result: the dict with the keys in has *)
Parsed(has, raw, info, nds) == [has |-> has, raw |-> raw, info |-> info, nodes |-> nds]

(* Mutant: every decoded value without entries is returned under 'info' *)
parse_meshtastic_info_AnyInfo(raw) ==
  LET found(data) == SelectSeq(<<"nodes", "devices", "peers">>, LAMBDA k : HasKey(data, k))
      result(data, keys) ==
        IF ~data.ok THEN Parsed({"raw"}, raw, NotJson, EmptyDict)
        ELSE IF keys = <<>> THEN Parsed({"info"}, OutEmpty, data, EmptyDict)
        ELSE Parsed({"nodes"}, OutEmpty, NotJson, GetKey(data, Head(keys)))
      parse(data) == result(data, found(data))
  IN parse(JsonLoads(raw))

parse_meshtastic_info(raw) ==
  LET found(data) == SelectSeq(<<"nodes", "devices", "peers">>, LAMBDA k : HasKey(data, k))
      first(data, keys) == IF keys # <<>> THEN GetKey(data, Head(keys)) ELSE EmptyDict
      result(data, nds) ==
        IF ~data.ok THEN Parsed({"raw"}, raw, NotJson, EmptyDict)
        ELSE IF data.t = "dict" /\ nds.n = 0 THEN Parsed({"info"}, OutEmpty, data, EmptyDict)
        ELSE IF data.t = "dict" THEN Parsed({"nodes"}, OutEmpty, NotJson, nds)
        ELSE Parsed({"nodes"}, OutEmpty, NotJson, EmptyDict)
      parse(data) == result(data, first(data, found(data)))
  IN parse(JsonLoads(raw))

(* parsed.get(k) is truthy *)
GetNodes(parsed) == "nodes" \in parsed.has /\ parsed.nodes.n > 0

GetRaw(parsed) == "raw" \in parsed.has /\ parsed.raw.s # ""

GetInfo(parsed) == "info" \in parsed.has /\ parsed.info.n > 0

----------------------------------------------------------------------------
(* The external tool: in world w it answers w.kind for the identifiers in   *)
(* w.answers and prints nothing for every other identifier; a tool that is  *)
(* not installed fails the same way for every identifier.                   *)

Tool(w, device) ==
  IF w.kind = "not_installed" \/ device \in w.answers THEN OutOf(w.kind, device)
  ELSE OutEmpty

RECURSIVE RunVariants(_, _, _)
RunVariants(w, variants, out) ==
  IF variants = <<>> THEN out
  ELSE LET o == Tool(w, Head(variants))
       IN IF o.s # "" THEN o ELSE RunVariants(w, Tail(variants), o)

run_cli_command(w, device) ==
  LET out == Tool(w, device)
  IN IF out.s = "" /\ device # <<>> /\ CharIn(":", device) /\ ~IsCom(device)
     THEN RunVariants(w, Variants(device), out)
     ELSE out

(* The identifiers one run_cli_command call hands to the tool, in order *)
RECURSIVE VariantCalls(_, _)
VariantCalls(w, variants) ==
  IF variants = <<>> THEN <<>>
  ELSE IF Tool(w, Head(variants)).s # "" THEN <<Head(variants)>>
  ELSE <<Head(variants)>> \o VariantCalls(w, Tail(variants))

(* Mutant: the tool is run once, whatever it prints *)
ToolCalls_Once(w, device) == <<device>>

ToolCalls(w, device) ==
  IF Tool(w, device).s = "" /\ device # <<>> /\ CharIn(":", device) /\ ~IsCom(device)
  THEN <<device>> \o VariantCalls(w, Variants(device))
  ELSE <<device>>

MESHTASTIC_INFO_CACHE_TTL == 8

(* Mutant: an entry whose age equals the ttl still counts as fresh *)
Fresh_Inclusive(ts, t, ttl) == (t - ts) <= ttl

(* (now - entry[0]) < ttl *)
Fresh(ts, t, ttl) == (t - ts) < ttl

(* get_meshtastic_info with an explicit ttl: the parsed result, the cache   *)
(* after, and whether run_cli_command was called                            *)
get_meshtastic_info_ttl(w, cache, t, device, ttl) ==
  LET store(key, parsed) ==
        [parsed |-> parsed,
         cache |-> [k \in DOMAIN cache \cup {key} |->
                      IF k = key THEN [ts |-> t, parsed |-> parsed] ELSE cache[k]],
         probed |-> TRUE]
      lookup(key) ==
        IF key \in DOMAIN cache /\ Fresh(cache[key].ts, t, ttl)
        THEN [parsed |-> cache[key].parsed, cache |-> cache, probed |-> FALSE]
        ELSE store(key, parse_meshtastic_info(
                          run_cli_command(w, IF device = NullStr THEN <<>> ELSE device)))
  IN lookup(IF TruthyStr(device) THEN device ELSE GlobalKey)

(* get_meshtastic_info with the default ttl *)
get_meshtastic_info(w, cache, t, device) ==
  get_meshtastic_info_ttl(w, cache, t, device, MESHTASTIC_INFO_CACHE_TTL)

----------------------------------------------------------------------------
(* The nodes table *)

NodeRow(node_id, long_name, role, connection, last_heard, encryption, snr, rssi, battery, uptime, last_updated, gps_lat, gps_lon, gps_alt, env_json) ==
  [node_id |-> node_id, long_name |-> long_name, role |-> role,
   connection |-> connection, last_heard |-> last_heard, encryption |-> encryption,
   snr |-> snr, rssi |-> rssi, battery |-> battery, uptime |-> uptime,
   last_updated |-> last_updated, gps_lat |-> gps_lat, gps_lon |-> gps_lon,
   gps_alt |-> gps_alt, env_json |-> env_json]

(* The row the commit/undo test seeds: seed1, 'Seed Node', CLIENT, manual *)
SeedRow ==
  NodeRow(SeedId, SeedName, "CLIENT", "manual", NullText, NullText, NullNum, NullNum,
          NullNum, NullNum, <<0>>, NullNum, NullNum, NullNum, NullText)

(* A row of a known serial device carrying link metrics and telemetry *)
TelemetryRow ==
  NodeRow(ComId, ComId, "CLIENT", "com", "2025-01-01T00:00:00", "aes256", <<7>>, <<-90>>,
          <<88>>, <<3600>>, <<0>>, <<51>>, <<4>>, <<12>>, "{\"temp\": 21}")

InitRosters == { <<>>, <<SeedRow, TelemetryRow>> }

HasNode(tbl, node_id) == \E i \in 1..Len(tbl) : tbl[i].node_id = node_id

(* DELETE FROM nodes WHERE node_id = ? *)
DeleteNode(tbl, node_id) == SelectSeq(tbl, LAMBDA r : r.node_id # node_id)

LogEntry(event, s, id, role, type, n) ==
  [event |-> event, details |-> [s |-> s, id |-> id, role |-> role, type |-> type, n |-> n]]

NoArgs == [none |-> TRUE]

(* The last call: the operation, its arguments and what it returned *)
Call(op, args, ret) == [op |-> op, args |-> args, ret |-> ret]

----------------------------------------------------------------------------
(* add_node_manual and remove_node.  fail is the number of the storage      *)
(* statement that raises (0: none).                                         *)

AddIds == {ZId}

RemoveIds == {ComId}

add_node_manual(node_type, node_id, long_name, role, fail) ==
  LET row == NodeRow(node_id, IF TruthyStr(long_name) THEN long_name ELSE <<>>,
                     IF role = NullText THEN "" ELSE role, node_type, NullText, "",
                     NullNum, NullNum, NullNum, NullNum, <<now>>,
                     NullNum, NullNum, NullNum, NullText)
      entry == LogEntry("add_node_manual", "Added node %s via %s", node_id, "", node_type, 0)
  IN IF fail = 1 THEN
          /\ last' = Call("add_node_manual", [node_id |-> node_id], [value |-> "error"])
          /\ UNCHANGED <<nodes, logs>>
     ELSE IF HasNode(nodes, node_id) THEN
          /\ last' = Call("add_node_manual", [node_id |-> node_id], [value |-> "duplicate"])
          /\ UNCHANGED <<nodes, logs>>
     ELSE IF fail # 0 THEN
          /\ last' = Call("add_node_manual", [node_id |-> node_id], [value |-> "error"])
          /\ UNCHANGED <<nodes, logs>>
     ELSE /\ nodes' = Append(nodes, row)
          /\ logs' = Append(logs, entry)
          /\ last' = Call("add_node_manual", [node_id |-> node_id], [value |-> "True"])

AddNodeManual ==
  \E node_type \in {"wifi"}, node_id \in AddIds, role \in {NullText}, fail \in {0} :
    /\ Len(logs) < MaxLogs
    /\ add_node_manual(node_type, node_id, NullStr, role, fail)
    /\ UNCHANGED <<commit_history, MESHTASTIC_INFO_CACHE, now, preCommit,
                 POSITIONS_CACHE, REDIS_CLIENT, pending>>

remove_node(node_id, fail) ==
  IF fail # 0 THEN
       /\ last' = Call("remove_node", [node_id |-> node_id], [value |-> "error"])
       /\ UNCHANGED <<nodes, logs>>
  ELSE /\ nodes' = DeleteNode(nodes, node_id)
       /\ logs' = Append(logs, LogEntry("remove_node_manual", "Removed node %s", node_id, "", "", 0))
       /\ last' = Call("remove_node", [node_id |-> node_id], [value |-> "True"])

RemoveNode ==
  \E node_id \in RemoveIds, fail \in {0} :
    /\ Len(logs) < MaxLogs
    /\ remove_node(node_id, fail)
    /\ UNCHANGED <<commit_history, MESHTASTIC_INFO_CACHE, now, preCommit,
                 POSITIONS_CACHE, REDIS_CLIENT, pending>>

(* Time passes *)
Tick ==
  /\ now + MESHTASTIC_INFO_CACHE_TTL <= MaxTime
  /\ now' = now + MESHTASTIC_INFO_CACHE_TTL
  /\ UNCHANGED <<nodes, logs, commit_history, MESHTASTIC_INFO_CACHE, last, preCommit,
                 POSITIONS_CACHE, REDIS_CLIENT, pending>>

----------------------------------------------------------------------------
(* auto_connect_loop: discovery *)

NoRawOut == [tag |-> "none", nodes |-> EmptyDict, raw |-> OutEmpty]

(* raw_out of a successful probe: json.dumps of the nodes, else the raw text *)
RawOut(parsed) ==
  IF GetNodes(parsed) THEN [tag |-> "nodes", nodes |-> parsed.nodes, raw |-> OutEmpty]
  ELSE IF GetRaw(parsed) THEN [tag |-> "raw", nodes |-> EmptyDict, raw |-> parsed.raw]
  ELSE NoRawOut

(* The loop over devices_to_try of one candidate *)
RECURSIVE TryVariants(_, _, _, _)
TryVariants(w, cache, t, devices_to_try) ==
  IF devices_to_try = <<>> THEN [ok |-> FALSE, raw |-> NoRawOut, cache |-> cache]
  ELSE LET try(r) ==
             IF GetNodes(r.parsed) \/ GetRaw(r.parsed) \/ GetInfo(r.parsed)
             THEN [ok |-> TRUE, raw |-> RawOut(r.parsed), cache |-> r.cache]
             ELSE TryVariants(w, r.cache, t, Tail(devices_to_try))
       IN try(get_meshtastic_info(w, cache, t, Head(devices_to_try)))

DevicesToTry(dev) ==
  IF CharIn(":", dev) /\ ~IsCom(dev) THEN Variants(dev) ELSE <<dev>>

(* The loop over device_candidates: the attempts and the cache afterwards *)
RECURSIVE Discover(_, _, _, _, _)
Discover(w, cache, t, device_candidates, attempts) ==
  IF device_candidates = <<>> THEN [attempts |-> attempts, cache |-> cache]
  ELSE LET probe(dev, r) ==
             Discover(w, r.cache, t, Tail(device_candidates),
                      Append(attempts, [device |-> dev, ok |-> r.ok, raw |-> r.raw]))
       IN probe(Head(device_candidates),
                TryVariants(w, cache, t, DevicesToTry(Head(device_candidates))))

----------------------------------------------------------------------------
(* auto_connect_loop: allocation *)

Available(attempts) ==
  LET oks == SelectSeq(attempts, LAMBDA a : a.ok)
  IN [i \in 1..Len(oks) |-> oks[i].device]

(* Mutant: the role test compares identities, so no entry is the primary *)
AllocatedEntry_NoPrimary(d, main) ==
  [id |-> d, role |-> "ROUTER_LATE", type |-> IF IsCom(d) THEN "com" ELSE "ble",
   long_name |-> d]

AllocatedEntry(d, main) ==
  [id |-> d, role |-> IF d = main THEN "ROUTER" ELSE "ROUTER_LATE",
   type |-> IF IsCom(d) THEN "com" ELSE "ble", long_name |-> d]

(* allocation_mode == 'manual' and main_id *)
IsManual(allocation_mode, main_id) == allocation_mode = "manual" /\ TruthyStr(main_id)

(* Mutant: the last available candidate becomes the primary *)
AutoMain_Last(available) == available[Len(available)]

(* main = available[0] *)
AutoMain(available) == Head(available)

(* Mutant: the primary is not filtered out of the secondaries *)
ManualRouters_All(available, main) == available

(* routers = [d for d in available if d != main] *)
ManualRouters(available, main) == SelectSeq(available, LAMBDA d : d # main)

Allocation(attempts, allocation_mode, main_id) ==
  LET available == Available(attempts)
      manual == IsManual(allocation_mode, main_id)
      main == IF manual THEN main_id
              ELSE IF available # <<>> THEN AutoMain(available) ELSE NullStr
      routers == IF manual THEN ManualRouters(available, main)
                 ELSE IF available # <<>> THEN Tail(available) ELSE <<>>
      order == IF TruthyStr(main) THEN <<main>> \o routers ELSE routers
      named == SelectSeq(order, LAMBDA d : TruthyStr(d))
  IN [main |-> main, routers |-> routers,
      allocated |-> [i \in 1..Len(named) |-> AllocatedEntry(named[i], main)]]

----------------------------------------------------------------------------
(* Snapshot and restore *)

(* SELECT node_id, long_name, role, connection, last_heard, snr, rssi,      *)
(* battery, uptime, last_updated FROM nodes, one dict per row               *)
Captured(r) ==
  [node_id |-> r.node_id, long_name |-> r.long_name, role |-> r.role,
   connection |-> r.connection, last_heard |-> r.last_heard, snr |-> r.snr,
   rssi |-> r.rssi, battery |-> r.battery, uptime |-> r.uptime,
   last_updated |-> r.last_updated]

Snapshot(tbl) == [i \in 1..Len(tbl) |-> Captured(tbl[i])]

(* Mutant: the role column is left out of the INSERT *)
RestoredRow_NoRole(r) ==
  NodeRow(r.node_id, r.long_name, NullText, r.connection, r.last_heard, NullText,
          r.snr, r.rssi, r.battery, r.uptime, r.last_updated,
          NullNum, NullNum, NullNum, NullText)

(* INSERT INTO nodes (the ten captured columns) for one snapshot dict *)
RestoredRow(r) ==
  NodeRow(r.node_id, r.long_name, r.role, r.connection, r.last_heard, NullText,
          r.snr, r.rssi, r.battery, r.uptime, r.last_updated,
          NullNum, NullNum, NullNum, NullText)

Restore(snapshot) == [i \in 1..Len(snapshot) |-> RestoredRow(snapshot[i])]

----------------------------------------------------------------------------
(* Telemetry capture during a commit *)

(* store_telemetry for a node whose info carries no battery, position or   *)
(* sensors, through its own connection: when another connection holds the  *)
(* write lock the INSERT raises and nothing is written.                    *)
store_telemetry(tbl, nid, long_name, t, locked) ==
  IF locked THEN tbl
  ELSE IF HasNode(tbl, nid)
  THEN [i \in 1..Len(tbl) |->
          IF tbl[i].node_id = nid
          THEN [tbl[i] EXCEPT !.gps_lat = NullNum, !.gps_lon = NullNum, !.gps_alt = NullNum,
                              !.battery = NullNum, !.env_json = NullText,
                              !.last_updated = <<t>>]
          ELSE tbl[i]]
  ELSE Append(tbl, NodeRow(nid, long_name, NullText, NullText, NullText, NullText,
                           NullNum, NullNum, NullNum, NullNum, <<t>>,
                           NullNum, NullNum, NullNum, NullText))

(* The telemetry attempt for one allocated node: the table other           *)
(* connections see, and the cache                                          *)
(* raised: an exception left the attempt (nodes_map[node_id] or             *)
(* nodes_map.items() on a list, or the INSERT of store_telemetry on a       *)
(* locked database)                                                         *)
CaptureTelemetry(w, outside, cache, t, node_id, locked) ==
  LET nid(ids) == IF \E i \in 1..Len(ids) : ids[i] = node_id THEN node_id ELSE Head(ids)
      capture(r) ==
        IF GetNodes(r.parsed) /\ r.parsed.nodes.t = "dict"
        THEN [outside |-> store_telemetry(outside, nid(r.parsed.nodes.ids), <<>>, t, locked),
              cache |-> r.cache, raised |-> locked, probed |-> r.probed]
        ELSE [outside |-> outside, cache |-> r.cache, raised |-> GetNodes(r.parsed),
              probed |-> r.probed]
  IN capture(get_meshtastic_info(w, cache, t, node_id))

(* Mutant: the exception of a telemetry attempt reaches the commit *)
Swallow_Reraise(raised) == raised

(* except Exception: pass -- whether the exception reaches the commit *)
Swallow(raised) == FALSE

----------------------------------------------------------------------------
(* auto_connect_loop: commit *)

(* Mutant: the existence test is skipped and a row is always inserted *)
Upsert_AlwaysInsert(tbl, node, t) ==
  Append(tbl, NodeRow(node.id, node.long_name, node.role, node.type, NullText,
                      NullText, NullNum, NullNum, NullNum, NullNum, <<t>>,
                      NullNum, NullNum, NullNum, NullText))

(* UPDATE nodes SET role, long_name, connection WHERE node_id = ?, or INSERT *)
Upsert(tbl, node, t) ==
  IF HasNode(tbl, node.id)
  THEN [i \in 1..Len(tbl) |->
          IF tbl[i].node_id = node.id
          THEN [tbl[i] EXCEPT !.role = node.role, !.long_name = node.long_name,
                              !.connection = node.type]
          ELSE tbl[i]]
  ELSE Append(tbl, NodeRow(node.id, node.long_name, node.role, node.type, NullText,
                           NullText, NullNum, NullNum, NullNum, NullNum, <<t>>,
                           NullNum, NullNum, NullNum, NullText))

(* Mutant: the audit entry of an upsert is not written *)
InsertLog_Skip(lg, entry) == lg

(* INSERT INTO logs (event, details) VALUES (?, ?) *)
InsertLog(lg, entry) == Append(lg, entry)

(* get_meshtastic_info(device=node_id) between the first write of the       *)
(* transaction and conn.commit(): the identifier the tool was run for       *)
InTransaction(probed, node_id) == IF probed THEN <<node_id>> ELSE <<>>

(* The loop over allocation['allocated'] inside the transaction.  stmt is   *)
(* the number of the next storage statement; the statement numbered fail    *)
(* raises.  tbl and lg are the tables as the transaction sees them, outside *)
(* is the nodes table as other connections see it.  probes are the         *)
(* identifiers the external tool was run for inside the transaction.        *)
RECURSIVE UpsertLoop(_, _, _, _, _, _, _, _, _)
UpsertLoop(w, tbl, outside, lg, cache, t, allocated, stmt, fail) ==
  IF allocated = <<>>
  THEN [nodes |-> tbl, outside |-> outside, logs |-> lg, cache |-> cache,
        failed |-> FALSE, stmt |-> stmt, probes |-> <<>>]
  ELSE LET logged(node) ==
             InsertLog(lg, LogEntry("auto_connect_commit", "json.dumps(node)",
                                    node.id, node.role, node.type, 0))
           after(probes, rest) == [rest EXCEPT !.probes = probes \o @]
           step(node, upserted, tel) ==
             IF fail \in {stmt, stmt + 1}
             THEN [nodes |-> tbl, outside |-> outside, logs |-> lg, cache |-> cache,
                   failed |-> TRUE, stmt |-> stmt, probes |-> <<>>]
             ELSE IF fail = stmt + 2
             THEN [nodes |-> upserted, outside |-> outside, logs |-> lg, cache |-> cache,
                   failed |-> TRUE, stmt |-> stmt, probes |-> <<>>]
             ELSE IF Swallow(tel.raised)
             THEN [nodes |-> upserted, outside |-> tel.outside, logs |-> logged(node),
                   cache |-> tel.cache, failed |-> TRUE, stmt |-> stmt,
                   probes |-> InTransaction(tel.probed, node.id)]
             ELSE after(InTransaction(tel.probed, node.id),
                        UpsertLoop(w, upserted, tel.outside, logged(node), tel.cache, t,
                                   Tail(allocated), stmt + 3, fail))
       IN step(Head(allocated), Upsert(tbl, Head(allocated), t),
               CaptureTelemetry(w, outside, cache, t, Head(allocated).id, TRUE))

Summary(attempts, allocation, committed, commit_error) ==
  [raised |-> FALSE, attempts |-> attempts, allocations |-> allocation,
   committed |-> committed, commit_error |-> commit_error]

Raised == [raised |-> TRUE]

(* Statements of a commit: 1 the SELECT of the snapshot, 2 the INSERT INTO  *)
(* commit_history, then per allocated node SELECT, UPDATE/INSERT and INSERT *)
(* INTO logs, and last conn.commit().                                       *)
CommitStatements(allocation) == 3 + 3 * Len(allocation.allocated)

(* Mutant: the flag is not consulted *)
AutoCommit_Always(auto_commit) == TRUE

(* if auto_commit: *)
AutoCommit(auto_commit) == auto_commit

(* Mutant: no snapshot row is written for an empty allocation *)
InsertHistory_SkipEmpty(hist, row) ==
  IF row.summary.allocated = <<>> THEN hist ELSE Append(hist, row)

(* INSERT INTO commit_history (when_ts, summary, snapshot) *)
InsertHistory(hist, row) == Append(hist, row)

(* Mutant: the failed transaction is committed instead of rolled back *)
rollback_Keep(before, tx) == tx

(* conn.rollback(): the tables as they were before the transaction *)
rollback(before, tx) == before

(* Where the storage fault of a pass falls: nowhere, in the statements      *)
(* before the try block, or inside it                                       *)
FaultOf(fail) == IF fail = 0 THEN "none" ELSE IF fail \in {1, 2} THEN "snapshot" ELSE "commit"

(* The pass, rows being what its SELECT of the nodes table returned *)
auto_connect_loop_at(rows, device_candidates, allocation_mode, main_id, auto_commit, w, fails) ==
  LET args(fail, probes) ==
        [device_candidates |-> device_candidates,
         allocation_mode |-> allocation_mode, main_id |-> main_id,
         auto_commit |-> auto_commit, fault |-> FaultOf(fail), locked_probes |-> probes]
      commit(disc, allocation, row, tx, fail) ==
        IF fail \in {1, 2} THEN
             /\ MESHTASTIC_INFO_CACHE' = disc.cache
             /\ last' = Call("auto_connect_loop", args(fail, <<>>), Raised)
             /\ UNCHANGED <<nodes, logs, commit_history, preCommit>>
        ELSE IF tx.failed \/ fail = CommitStatements(allocation) THEN
             /\ nodes' = rollback(tx.outside, tx.nodes)
             /\ logs' = rollback(logs, tx.logs)
             /\ commit_history' = rollback(commit_history, InsertHistory(commit_history, row))
             /\ MESHTASTIC_INFO_CACHE' = tx.cache
             /\ last' = Call("auto_connect_loop", args(fail, tx.probes),
                             Summary(disc.attempts, allocation, "absent", TRUE))
             /\ UNCHANGED preCommit
        ELSE /\ Len(tx.logs) <= MaxLogs
             /\ nodes' = tx.nodes
             /\ logs' = tx.logs
             /\ commit_history' = InsertHistory(commit_history, row)
             /\ MESHTASTIC_INFO_CACHE' = tx.cache
             /\ preCommit' = nodes
             /\ last' = Call("auto_connect_loop", args(fail, tx.probes),
                             Summary(disc.attempts, allocation, "True", FALSE))
      pass(disc, allocation) ==
        IF ~AutoCommit(auto_commit) THEN
             /\ MESHTASTIC_INFO_CACHE' = disc.cache
             /\ last' = Call("auto_connect_loop", args(0, <<>>),
                             Summary(disc.attempts, allocation, "False", FALSE))
             /\ UNCHANGED <<nodes, logs, commit_history, preCommit>>
        ELSE \E fail \in fails \cap (0..CommitStatements(allocation)) :
               commit(disc, allocation,
                      [when_ts |-> now, summary |-> allocation, snapshot |-> Snapshot(rows)],
                      UpsertLoop(w, nodes, nodes, logs, disc.cache, now,
                                 allocation.allocated, 3, fail),
                      fail)
      plan(disc) == pass(disc, Allocation(disc.attempts, allocation_mode, main_id))
  IN plan(Discover(w, MESHTASTIC_INFO_CACHE, now, device_candidates, <<>>))

(* The pass when no other connection writes while it runs *)
auto_connect_loop(device_candidates, allocation_mode, main_id, auto_commit, w, fails) ==
  auto_connect_loop_at(nodes, device_candidates, allocation_mode, main_id, auto_commit, w, fails)

(* The external tool's behaviours: who answers, and with what *)
AnswerKeys == {lower(replace(BleId, ":")), ComId}

World(answers, kind) == [answers |-> answers, kind |-> kind]

(* Inputs of the roster life cycle: the candidates, mode and main_id of a   *)
(* pass, every candidate answering with its node info                       *)
RosterPasses ==
  { << <<>>, "auto", NullStr >>,
    << <<BleId, ComId>>, "auto", NullStr >>,
    << <<>>, "manual", ZId >>,
    << <<ComId>>, "manual", ZId >>,
    << <<ComId, ComId>>, "auto", NullStr >> }

RosterWorld == World(AnswerKeys, "nodes")

DryRun ==
  \E p \in {q \in RosterPasses : q[1] # <<>> /\ q[2] = "auto"} :
    auto_connect_loop(p[1], p[2], p[3], FALSE, RosterWorld, {0}) /\ UNCHANGED <<now, POSITIONS_CACHE, REDIS_CLIENT, pending>>

Commit ==
  \E p \in RosterPasses :
    /\ Len(commit_history) < MaxCommits
    /\ auto_connect_loop(p[1], p[2], p[3], TRUE, RosterWorld,
                         IF p[2] = "auto" THEN 0..(3 + 3 * Len(p[1])) ELSE {0})
    /\ UNCHANGED <<now, POSITIONS_CACHE, REDIS_CLIENT, pending>>

----------------------------------------------------------------------------
(* undo_last_commit.  Statements: 1 the SELECT of the latest row, 2 DELETE  *)
(* FROM nodes, one INSERT per snapshot record, conn.commit(), the INSERT    *)
(* INTO logs and the second conn.commit().                                  *)

UndoStatements(snapshot) == 5 + Len(snapshot)

UndoResult(ok, reason, n) == [ok |-> ok, reason |-> reason, n |-> n]

(* Mutant: ORDER BY id ASC, the oldest row *)
LatestRow_Oldest(hist) == hist[1]

(* SELECT ... FROM commit_history ORDER BY id DESC LIMIT 1, when a row exists *)
LatestRow(hist) == hist[Len(hist)]

(* Mutant: the current rows are kept *)
DeleteAll_Skip(tbl) == tbl

(* DELETE FROM nodes *)
DeleteAll(tbl) == <<>>

(* Mutant: the roster is cleared before the history row is looked up *)
UndoEffect_DeleteFirst(hist, tbl, lg, fail) ==
  IF fail = 1 THEN [nodes |-> tbl, logs |-> lg, ret |-> UndoResult(FALSE, "str(e)", 0)]
  ELSE IF hist = <<>>
  THEN [nodes |-> <<>>, logs |-> lg,
        ret |-> UndoResult(FALSE, "No commit history available", 0)]
  ELSE IF fail # 0 THEN [nodes |-> tbl, logs |-> lg, ret |-> UndoResult(FALSE, "str(e)", 0)]
  ELSE [nodes |-> Restore(hist[Len(hist)].snapshot),
        logs |-> Append(lg, LogEntry("undo_last_commit", "Restored commit_history id=%d",
                                     <<>>, "", "", Len(hist))),
        ret |-> UndoResult(TRUE, "Restored commit id %d from %s", Len(hist))]

(* The effect of undo_last_commit on the nodes and logs tables, and what    *)
(* it returns, when the statement numbered fail raises (0: none)            *)
UndoEffect(hist, tbl, lg, fail) ==
  LET hist_id == Len(hist)
      row == LatestRow(hist)
      restored == DeleteAll(tbl) \o Restore(row.snapshot)
      entry == LogEntry("undo_last_commit", "Restored commit_history id=%d", <<>>, "", "", hist_id)
      first_commit == 3 + Len(row.snapshot)
  IN IF fail = 1 THEN
          [nodes |-> tbl, logs |-> lg, ret |-> UndoResult(FALSE, "str(e)", 0)]
     ELSE IF hist = <<>> THEN
          [nodes |-> tbl, logs |-> lg,
           ret |-> UndoResult(FALSE, "No commit history available", 0)]
     ELSE IF fail # 0 /\ fail <= first_commit THEN
          [nodes |-> tbl, logs |-> lg, ret |-> UndoResult(FALSE, "str(e)", 0)]
     ELSE IF fail # 0 THEN
          [nodes |-> restored, logs |-> lg, ret |-> UndoResult(FALSE, "str(e)", 0)]
     ELSE [nodes |-> restored, logs |-> Append(lg, entry),
           ret |-> UndoResult(TRUE, "Restored commit id %d from %s", hist_id)]

undo_last_commit(fail) ==
  LET e == UndoEffect(commit_history, nodes, logs, fail)
  IN /\ nodes' = e.nodes
     /\ logs' = e.logs
     /\ last' = Call("undo_last_commit",
                     [fault |-> fail # 0,
                      after_rollback |-> /\ last.op = "auto_connect_loop"
                                         /\ ~last.ret.raised /\ last.ret.commit_error],
                     e.ret)

Undo ==
  \E fail \in 0..(IF commit_history = <<>> THEN 1
                  ELSE UndoStatements(LatestRow(commit_history).snapshot)) :
    /\ Len(logs) < MaxLogs
    /\ undo_last_commit(fail)
    /\ UNCHANGED <<commit_history, MESHTASTIC_INFO_CACHE, now, preCommit,
                 POSITIONS_CACHE, REDIS_CLIENT, pending>>

----------------------------------------------------------------------------
(* Specification *)

NoCall == Call("none", NoArgs, [none |-> TRUE])

(* _POSITIONS_CACHE before the first request *)
NoPositions == [set |-> FALSE, ts |-> 0, positions |-> <<>>]

(* REDIS_CLIENT: none configured (mode "none"), a client whose get and      *)
(* setex raise (mode "bad"), or a working client with the value stored      *)
(* under 'positions_cache'                                                  *)
Redis(mode, val) == [mode |-> mode, val |-> val]

NoRedis == Redis("none", NoPositions)

(* pending: a commit pass that has read the roster (the SELECT of the       *)
(* snapshot) and has not yet made its first write: the rows it read and the *)
(* arguments of the pass                                                    *)
NoPending == [active |-> FALSE]

Init ==
  /\ nodes \in InitRosters
  /\ logs = <<>>
  /\ commit_history = <<>>
  /\ MESHTASTIC_INFO_CACHE = <<>>
  /\ now = 0
  /\ last = NoCall
  /\ preCommit = <<>>
  /\ POSITIONS_CACHE = NoPositions
  /\ REDIS_CLIENT = NoRedis
  /\ pending = NoPending

Next ==
  \/ AddNodeManual
  \/ RemoveNode
  \/ DryRun
  \/ Commit
  \/ Undo

Spec == Init /\ [][Next]_vars

----------------------------------------------------------------------------
(* One pass of auto_connect_loop over every candidate list, mode and tool   *)
(* behaviour, from a fresh or used database and a cold or warm cache        *)

AllocIds == {BleId, ComId, ZId}

CandLists == UNION { [1..n -> AllocIds] : n \in 0..MaxCands }

AllocModes ==
  { <<"auto", NullStr>>, <<"manual", NullStr>>, <<"manual", ZId>>, <<"manual", ComId>> }

AllocWorlds ==
  { World(a, "nodes") : a \in SUBSET (AnswerKeys \cup {ZId}) }
    \cup { World(AnswerKeys \cup {ZId}, k) : k \in {"text", "empty_dict"} }
    \cup { World({ComId}, "text"), World(AnswerKeys \cup {ZId}, "nodes_list") }

(* The cache before any call, and after a pass in which ComId answered with *)
(* node info and BleId did not answer                                       *)
InitCaches ==
  { <<>>, Discover(World({ComId}, "nodes"), <<>>, 0, <<ComId, BleId>>, <<>>).cache }

EmptyAllocation == [main |-> NullStr, routers |-> <<>>, allocated |-> <<>>]

(* The database before any call, and after a committed empty allocation     *)
(* followed by remove_node(ComId)                                           *)
InitDbs ==
  { [nodes |-> <<SeedRow, TelemetryRow>>, logs |-> <<>>, commit_history |-> <<>>,
     preCommit |-> <<>>] }
  \cup
  { [nodes |-> DeleteNode(<<SeedRow, TelemetryRow>>, ComId),
     logs |-> << LogEntry("remove_node_manual", "Removed node %s", ComId, "", "", 0) >>,
     commit_history |-> << [when_ts |-> 0, summary |-> EmptyAllocation,
                            snapshot |-> Snapshot(<<SeedRow, TelemetryRow>>)] >>,
     preCommit |-> <<SeedRow, TelemetryRow>>] }

InitAlloc ==
  /\ \E db \in InitDbs :
       /\ nodes = db.nodes
       /\ logs = db.logs
       /\ commit_history = db.commit_history
       /\ preCommit = db.preCommit
  /\ MESHTASTIC_INFO_CACHE \in InitCaches
  /\ now = 0
  /\ last = NoCall
  /\ POSITIONS_CACHE = NoPositions
  /\ REDIS_CLIENT = NoRedis
  /\ pending = NoPending

AllocDryRun ==
  \E device_candidates \in CandLists, m \in AllocModes, w \in AllocWorlds :
    /\ last = NoCall
    /\ auto_connect_loop(device_candidates, m[1], m[2], FALSE, w, {0})
    /\ UNCHANGED <<now, POSITIONS_CACHE, REDIS_CLIENT, pending>>

AllocCommit ==
  \E device_candidates \in CandLists, m \in AllocModes, w \in AllocWorlds :
    /\ last = NoCall
    /\ Len(commit_history) < MaxCommits
    /\ auto_connect_loop(device_candidates, m[1], m[2], TRUE, w, {0})
    /\ UNCHANGED <<now, POSITIONS_CACHE, REDIS_CLIENT, pending>>

NextAlloc ==
  \/ AllocDryRun
  \/ AllocCommit
  \/ Tick

SpecAlloc == InitAlloc /\ [][NextAlloc]_vars

----------------------------------------------------------------------------
(* validate_candidate *)

(* Texts as characters *)
TextChars ==
  <<"C","o","n","n","e","c","t","e","d"," ","t","o"," ","r","a","d","i","o">>

ErrnoChars ==
  <<"[","E","r","r","n","o"," ","2","]"," ","N","o"," ","s","u","c","h"," ",
    "f","i","l","e"," ","o","r"," ","d","i","r","e","c","t","o","r","y",":",
    " ","'","m","e","s","h","t","a","s","t","i","c","'">>

UserChars == <<"{","\"","u","s","e","r","\"",":"," ","{","}","}">>

KeyChars(k) ==
  CASE k = "nodes" -> <<"n","o","d","e","s">>
    [] k = "node" -> <<"n","o","d","e">>
    [] OTHER -> <<>>

(* json.dumps of a decoded payload *)
DumpsMember(m) ==
  IF m.t = "list" THEN <<"[","1","]">>
  ELSE IF m.ids = <<>> THEN <<"{","}">>
  ELSE <<"{","\"">> \o m.ids[1] \o <<"\"",":"," ">> \o UserChars \o <<"}">>

Dumps(data) ==
  IF data.t = "list" THEN <<"[","1","]">>
  ELSE IF data.keys = <<>> THEN <<"{","}">>
  ELSE <<"{","\"">> \o KeyChars(data.keys[1]) \o <<"\"",":"," ">>
         \o DumpsMember(data.vals[1]) \o <<"}">>

(* str(out) *)
Render(out) ==
  CASE out.s = "" -> <<>>
    [] out.s = "Connected to radio" -> TextChars
    [] out.s = "[Errno 2] No such file or directory: 'meshtastic'" -> ErrnoChars
    [] OTHER -> Dumps(JsonLoads(out))

(* token in text *)
Contains(text, token) ==
  \E i \in 0..(Len(text) - Len(token)) : SubSeq(text, i + 1, i + Len(token)) = token

(* The serial layer: whether import serial works, whether serial.Serial()  *)
(* constructs, whether s.open() and s.close() work, and the outcomes of    *)
(* the successive serial.Serial(device) calls                              *)
SerialLayer(import, ctor, open, retries) ==
  [import |-> import, ctor |-> ctor, open |-> open, retries |-> retries]

(* The tool over time: world first until run_cli_command call number from, *)
(* world then from that call on                                            *)
Schedule(first, from, then) == [first |-> first, from |-> from, then |-> then]

WorldAt(sched, n) == IF n < sched.from THEN sched.first ELSE sched.then

(* attempts=3 of try_info_with_retries *)
ProbeAttempts == 3

(* range(3) of the open/close check *)
OpenAttempts == 3

(* What validate_candidate has done so far: the run_cli_command calls with *)
(* their outputs, the serial.Serial(device) calls, and the sleeps in       *)
(* tenths of a second                                                      *)
NoTrace == [probes |-> <<>>, opens |-> 0, sleeps |-> <<>>]

NoParsed == [raw |-> OutEmpty, json |-> NotJson]

(* A returned dict: keys are the keys it carries *)
ValidationResult(ok, reason, keys, raw, parsed, tr) ==
  [ok |-> ok, reason |-> reason, keys |-> keys, raw |-> raw, parsed |-> parsed,
   probes |-> tr.probes, opens |-> tr.opens, sleeps |-> tr.sleeps]

AllKeys == {"ok", "reason", "raw", "parsed"}

(* Mutant: any output, also an empty one, counts as an answer *)
NonEmpty_Always(out) == TRUE

(* if out and str(out).strip() *)
NonEmpty(out) == out.s # ""

(* Mutant: the expected identifier is never checked *)
ExpectedGiven_Never(expected) == FALSE

(* if expected: *)
ExpectedGiven(expected) == TruthyStr(expected)

(* Mutant: the same delay after every attempt *)
Backoff_Flat(delay, i) == delay

(* time.sleep(delay * (1 + i)) *)
Backoff(delay, i) == delay * (1 + i)

RECURSIVE try_info_with_retries(_, _, _, _, _)
try_info_with_retries(sched, tr, device_to_try, i, last_raw) ==
  IF i = ProbeAttempts THEN [ok |-> FALSE, out |-> last_raw, tr |-> tr]
  ELSE LET called(out) == [tr EXCEPT !.probes = Append(@, [device |-> device_to_try,
                                                           out |-> out])]
           slept(t) == [t EXCEPT !.sleeps = Append(@, Backoff(10, i))]
           attempt(out) ==
             IF NonEmpty(out) THEN [ok |-> TRUE, out |-> out, tr |-> called(out)]
             ELSE try_info_with_retries(sched, slept(called(out)), device_to_try, i + 1, out)
       IN attempt(run_cli_command(WorldAt(sched, Len(tr.probes) + 1), device_to_try))

(* Mutant: the port is taken to be open without trying *)
OpenWithRetries_Assume(retries, attempt, tr) == [opened |-> TRUE, tr |-> tr]

(* The open/close check with retries: serial.Serial(device) up to 3 times *)
RECURSIVE OpenWithRetries(_, _, _)
OpenWithRetries(retries, attempt, tr) ==
  IF attempt = OpenAttempts THEN [opened |-> FALSE, tr |-> tr]
  ELSE IF retries[attempt + 1]
  THEN [opened |-> TRUE, tr |-> [tr EXCEPT !.opens = @ + 1]]
  ELSE OpenWithRetries(retries, attempt + 1,
                       [tr EXCEPT !.opens = @ + 1,
                                  !.sleeps = Append(@, 5 + attempt * 5)])

(* The loop over devices_to_try *)
RECURSIVE TryDevices(_, _, _, _, _, _)
TryDevices(sched, expected, devices_to_try, tr, parsed, last_raw) ==
  IF devices_to_try = <<>>
  THEN ValidationResult(FALSE, "No meshtastic node info returned after retries",
                        AllKeys, last_raw, parsed, tr)
  ELSE LET decoded(r, data) ==
             IF ~data.ok
             THEN IF ExpectedGiven(expected)
                     /\ ~Contains(lower(Render(r.out)), lower(expected))
                  THEN ValidationResult(FALSE,
                         "Non-JSON output present but expected identifier not found",
                         AllKeys, r.out, [parsed EXCEPT !.raw = r.out], r.tr)
                  ELSE ValidationResult(TRUE, "Non-JSON output present",
                         AllKeys, r.out, [parsed EXCEPT !.raw = r.out], r.tr)
             ELSE IF data.t = "dict" /\ (HasKey(data, "node") \/ HasKey(data, "nodes"))
             THEN IF ~ExpectedGiven(expected)
                  THEN ValidationResult(TRUE, "Found node info",
                         AllKeys, r.out, [raw |-> r.out, json |-> data], r.tr)
                  ELSE IF Contains(lower(Dumps(data)), lower(expected))
                  THEN ValidationResult(TRUE, "Found expected node in JSON",
                         AllKeys, r.out, [raw |-> r.out, json |-> data], r.tr)
                  ELSE ValidationResult(FALSE,
                         "JSON returned but expected identifier not found",
                         AllKeys, r.out, [raw |-> r.out, json |-> data], r.tr)
             ELSE TryDevices(sched, expected, Tail(devices_to_try), r.tr,
                             [raw |-> r.out, json |-> data], r.out)
           tried(r) ==
             IF r.ok THEN decoded(r, JsonLoads(r.out))
             ELSE TryDevices(sched, expected, Tail(devices_to_try), r.tr,
                             [parsed EXCEPT !.raw = r.out], r.out)
       IN tried(try_info_with_retries(sched, tr, Head(devices_to_try), 0, OutEmpty))

validate_candidate(device, expected, serial, sched) ==
  LET probing(tr) == TryDevices(sched, expected, DevicesToTry(device), tr, NoParsed, OutEmpty)
      checked(o) ==
        IF ~o.opened
        THEN ValidationResult(FALSE, "Could not open serial port after retries: %s",
                              AllKeys, OutEmpty, NoParsed, o.tr)
        ELSE probing(o.tr)
  IN IF ~IsCom(device) THEN probing(NoTrace)
     ELSE IF ~serial.import \/ ~serial.ctor
     THEN ValidationResult(FALSE, "pyserial not available", {"ok", "reason"},
                           OutEmpty, NoParsed, NoTrace)
     ELSE IF ~serial.open
     THEN ValidationResult(FALSE, "Could not open COM port: %s", {"ok", "reason"},
                           OutEmpty, NoParsed, NoTrace)
     ELSE checked(OpenWithRetries(serial.retries, 0, NoTrace))

(* Inputs of validation *)
MaxSwitch == 4

(* A BLE address, the same address written with a hyphen, a serial port     *)
(* and a name                                                               *)
ValidateIds == {BleId, <<"a","1","-","b","2">>, ComId, ZId}

Expecteds == {NullStr, upper(replace(BleId, ":")), ZId, <<"R","A","D","I","O">>}

WorkingSerial == SerialLayer(TRUE, TRUE, TRUE, <<TRUE, TRUE, TRUE>>)

SerialLayers ==
  { SerialLayer(FALSE, TRUE, TRUE, <<TRUE, TRUE, TRUE>>),
    SerialLayer(TRUE, FALSE, FALSE, <<FALSE, FALSE, FALSE>>),
    SerialLayer(TRUE, TRUE, FALSE, <<FALSE, TRUE, TRUE>>),
    SerialLayer(TRUE, TRUE, FALSE, <<TRUE, TRUE, TRUE>>) }
  \cup { SerialLayer(TRUE, TRUE, TRUE, r) : r \in [1..OpenAttempts -> BOOLEAN] }

Silent == World({}, "nodes")

ValidateWorlds ==
  { Silent, World(AnswerKeys \cup {ZId}, "nodes"), World(AnswerKeys \cup {ZId}, "text"),
    World(AnswerKeys \cup {ZId}, "empty_dict"), World(AnswerKeys \cup {ZId}, "list"),
    World(AnswerKeys \cup {ZId}, "nodes_empty"), World({}, "not_installed") }

Schedules ==
  { Schedule(Silent, k, w) : k \in 1..MaxSwitch, w \in ValidateWorlds }
  \cup { Schedule(World(AnswerKeys \cup {ZId}, "empty_dict"), k, w) :
           k \in 2..MaxSwitch, w \in ValidateWorlds }

Validate ==
  \E device \in ValidateIds, expected \in Expecteds, sched \in Schedules :
    \E serial \in IF IsCom(device) THEN SerialLayers ELSE {WorkingSerial} :
      /\ last = NoCall
      /\ last' = Call("validate_candidate",
                      [device |-> device, expected |-> expected, serial |-> serial,
                       sched |-> sched],
                      validate_candidate(device, expected, serial, sched))
      /\ UNCHANGED <<nodes, logs, commit_history, MESHTASTIC_INFO_CACHE, now, preCommit,
                 POSITIONS_CACHE, REDIS_CLIENT, pending>>

(* A discovery pass (dry run) over one candidate *)
Discovery ==
  \E device \in ValidateIds, w \in ValidateWorlds :
    /\ last = NoCall
    /\ auto_connect_loop(<<device>>, "auto", NullStr, FALSE, w, {0})
    /\ UNCHANGED <<now, POSITIONS_CACHE, REDIS_CLIENT, pending>>

(* scan_com_ports: the error dict without pyserial, else the port list *)
scan_com_ports(pyserial, ports) ==
  IF pyserial THEN [t |-> "list", devices |-> ports] ELSE [t |-> "error", devices |-> <<>>]

(* scan_ble_devices: the error dict without bleak, else the devices found *)
scan_ble_devices(bleak, found) ==
  IF bleak THEN [t |-> "list", devices |-> found] ELSE [t |-> "error", devices |-> <<>>]

(* candidates = [p['device'] for p in scan_com_ports()], then the BLE       *)
(* addresses if the BLE scan returned a list.  Iterating the error dict     *)
(* yields its key 'error', and 'error'['device'] raises TypeError.          *)
ScanCandidates(com, ble) ==
  IF com.t = "error" THEN [raised |-> TRUE, candidates |-> <<>>]
  ELSE [raised |-> FALSE,
        candidates |-> com.devices \o (IF ble.t = "list" THEN ble.devices ELSE <<>>)]

(* api_commit with the default payload: scan, then a dry-run pass *)
ApiCommit ==
  \E pyserial \in BOOLEAN, bleak \in BOOLEAN, ports \in {<<>>, <<ComId>>},
     found \in {<<>>, <<BleId>>}, w \in {Silent, World(AnswerKeys \cup {ZId}, "nodes")} :
    LET args == [com |-> scan_com_ports(pyserial, ports),
                 ble |-> scan_ble_devices(bleak, found)]
        summary(disc) ==
          [ret |-> Summary(disc.attempts, Allocation(disc.attempts, "auto", NullStr),
                           "False", FALSE),
           cache |-> disc.cache]
        pass(c) ==
          IF c.raised THEN [ret |-> Raised, cache |-> MESHTASTIC_INFO_CACHE]
          ELSE summary(Discover(w, MESHTASTIC_INFO_CACHE, now, c.candidates, <<>>))
        done(r) ==
          /\ last' = Call("api_commit", args, r.ret)
          /\ MESHTASTIC_INFO_CACHE' = r.cache
    IN /\ last = NoCall
       /\ done(pass(ScanCandidates(args.com, args.ble)))
       /\ UNCHANGED <<nodes, logs, commit_history, now, preCommit,
                 POSITIONS_CACHE, REDIS_CLIENT, pending>>

(* One run_cli_command(['--info'], device) call *)
Probe ==
  \E device \in ValidateIds, w \in ValidateWorlds :
    /\ last = NoCall
    /\ last' = Call("run_cli_command", [device |-> device, w |-> w],
                    [out |-> run_cli_command(w, device), calls |-> ToolCalls(w, device)])
    /\ UNCHANGED <<nodes, logs, commit_history, MESHTASTIC_INFO_CACHE, now, preCommit,
                   POSITIONS_CACHE, REDIS_CLIENT, pending>>

(* One call of parse_meshtastic_info on an output of the tool *)
ParseKinds ==
  OutKinds \cup {"none", "nodes_list", "not_installed", "devices", "peers_nodes",
                 "nodes_empty_devices", "owner", "number"}

ParseInfo ==
  \E kind \in ParseKinds, d \in ValidateIds :
    /\ last = NoCall
    /\ last' = Call("parse_meshtastic_info", [raw |-> OutOf(kind, d)],
                    parse_meshtastic_info(OutOf(kind, d)))
    /\ UNCHANGED <<nodes, logs, commit_history, MESHTASTIC_INFO_CACHE, now, preCommit,
                 POSITIONS_CACHE, REDIS_CLIENT, pending>>

(* The discovery loop of auto_connect_loop and validate_candidate (no       *)
(* expected token) on the same candidate, the tool behaving the same way    *)
(* for both and the cache being empty                                       *)
CompareWorlds ==
  ValidateWorlds \cup { World(AnswerKeys \cup {ZId}, k) : k \in {"owner", "devices"} }

DiscoverAndValidate ==
  \E device \in ValidateIds, w \in CompareWorlds :
    \E serial \in IF IsCom(device) THEN SerialLayers ELSE {WorkingSerial} :
      LET both(d, v) == [available |-> d.attempts[1].ok, validated |-> v.ok,
                         reason |-> v.reason, probes |-> v.probes]
      IN /\ last = NoCall
         /\ last' = Call("discover_and_validate",
                         [device |-> device, w |-> w, serial |-> serial],
                         both(Discover(w, <<>>, now, <<device>>, <<>>),
                              validate_candidate(device, NullStr, serial, Schedule(w, 1, w))))
         /\ UNCHANGED <<nodes, logs, commit_history, MESHTASTIC_INFO_CACHE, now, preCommit,
                        POSITIONS_CACHE, REDIS_CLIENT, pending>>

NextValidate ==
  \/ Validate
  \/ Discovery
  \/ ApiCommit
  \/ Probe
  \/ ParseInfo
  \/ DiscoverAndValidate

SpecValidate == Init /\ [][NextValidate]_vars

----------------------------------------------------------------------------
(* An empty roster and an empty cache: the roster plays no part *)
InitCache == Init /\ nodes = <<>>

(* generate_ble_variants on its own: every address of up to MaxAddr         *)
(* characters that contains a separator                                     *)

MaxAddr == 4

Addresses ==
  { a \in UNION { [1..n -> {"a", "B", "1", ":", "-", " "}] : n \in 1..MaxAddr } :
      CharIn(":", a) \/ CharIn("-", a) }

GenerateVariants ==
  \E address \in Addresses :
    /\ last = NoCall
    /\ last' = Call("generate_ble_variants", [address |-> address],
                    [variants |-> generate_ble_variants(address)])
    /\ UNCHANGED <<nodes, logs, commit_history, MESHTASTIC_INFO_CACHE, now, preCommit,
                 POSITIONS_CACHE, REDIS_CLIENT, pending>>

SpecVariants == InitCache /\ [][GenerateVariants]_vars

----------------------------------------------------------------------------
(* The info cache on its own: get_meshtastic_info calls for several keys    *)
(* and ttls, against a tool whose answer changes between calls, while the   *)
(* clock advances second by second                                          *)

MaxClock == 8

CacheDevices == {NullStr, ZId}

Ttls == {3, MESHTASTIC_INFO_CACHE_TTL}

CacheWorlds == {Silent, World({<<>>, ZId}, "nodes"), World({}, "not_installed")}

CachedInfo ==
  \E device \in CacheDevices, ttl \in Ttls, w \in CacheWorlds :
    LET r == get_meshtastic_info_ttl(w, MESHTASTIC_INFO_CACHE, now, device, ttl)
    IN /\ MESHTASTIC_INFO_CACHE' = r.cache
       /\ last' = Call("get_meshtastic_info",
                       [device |-> device, ttl |-> ttl, w |-> w, t |-> now],
                       [parsed |-> r.parsed, probed |-> r.probed])
       /\ UNCHANGED <<nodes, logs, commit_history, now, preCommit,
                 POSITIONS_CACHE, REDIS_CLIENT, pending>>

Elapse ==
  /\ now < MaxClock
  /\ now' = now + 1
  /\ UNCHANGED <<nodes, logs, commit_history, MESHTASTIC_INFO_CACHE, last, preCommit,
                 POSITIONS_CACHE, REDIS_CLIENT, pending>>

NextCache ==
  \/ CachedInfo
  \/ Elapse

SpecCache == InitCache /\ [][NextCache]_vars

----------------------------------------------------------------------------
(* GET /api/nodes/positions: Redis first, then the in-process cache, then   *)
(* the nodes table                                                          *)

(* cache_ttl = 5, and the ttl of the in-process cache *)
PositionsTtl == 5

(* Mutant: the WHERE clause is dropped *)
HasPosition_Any(r) == TRUE

(* WHERE gps_lat IS NOT NULL AND gps_lon IS NOT NULL *)
HasPosition(r) == r.gps_lat # NullNum /\ r.gps_lon # NullNum

(* SELECT node_id, long_name, gps_lat, gps_lon, gps_alt, battery, last_updated *)
SelectPositions(tbl) ==
  LET project(rows) ==
        [i \in 1..Len(rows) |->
           [node_id |-> rows[i].node_id, long_name |-> rows[i].long_name,
            gps_lat |-> rows[i].gps_lat, gps_lon |-> rows[i].gps_lon,
            gps_alt |-> rows[i].gps_alt, battery |-> rows[i].battery,
            last_updated |-> rows[i].last_updated]]
  IN project(SelectSeq(tbl, HasPosition))

(* The response, the in-process cache and the Redis side after a request at *)
(* time t; fail # 0: the query of the nodes table raises.  time.time() is   *)
(* never 0, so a stored ts is always truthy.  A key written with setex is   *)
(* gone after cache_ttl seconds, which is when its ts stops being fresh.    *)
api_nodes_positions(client, cache, tbl, t, fail) ==
  LET fresh(c) == c.set /\ (t - c.ts) < PositionsTtl
      answer(positions) == [status |-> 200, ok |-> TRUE, positions |-> positions]
      stored(out) == [set |-> TRUE, ts |-> t, positions |-> out]
      query(out) ==
        [ret |-> answer(out), cache |-> stored(out),
         client |-> IF client.mode = "ok" THEN Redis("ok", stored(out)) ELSE client]
  IN IF client.mode = "ok" /\ fresh(client.val)
     THEN [ret |-> answer(client.val.positions), cache |-> cache, client |-> client]
     ELSE IF fresh(cache)
     THEN [ret |-> answer(cache.positions), cache |-> cache, client |-> client]
     ELSE IF fail # 0
     THEN [ret |-> [status |-> 500, ok |-> FALSE, positions |-> <<>>],
           cache |-> cache, client |-> client]
     ELSE query(SelectPositions(tbl))

GetPositions ==
  \E fail \in {0, 1} :
    LET done(r) ==
          /\ last' = Call("api_nodes_positions", [t |-> now, fault |-> fail # 0], r.ret)
          /\ POSITIONS_CACHE' = r.cache
          /\ REDIS_CLIENT' = r.client
    IN /\ done(api_nodes_positions(REDIS_CLIENT, POSITIONS_CACHE, nodes, now, fail))
       /\ UNCHANGED <<nodes, logs, commit_history, MESHTASTIC_INFO_CACHE, now, preCommit,
                    pending>>

InitPositions ==
  /\ nodes \in InitRosters
  /\ logs = <<>>
  /\ commit_history = <<>>
  /\ MESHTASTIC_INFO_CACHE = <<>>
  /\ now = 0
  /\ last = NoCall
  /\ preCommit = <<>>
  /\ POSITIONS_CACHE = NoPositions
  /\ REDIS_CLIENT \in {NoRedis, Redis("bad", NoPositions), Redis("ok", NoPositions)}
  /\ pending = NoPending

NextPositions ==
  \/ GetPositions
  \/ Elapse
  \/ AddNodeManual
  \/ RemoveNode

SpecPositions == InitPositions /\ [][NextPositions]_vars

----------------------------------------------------------------------------
(* A commit pass next to other callers, each on its own connection.  The    *)
(* pass reads the roster with a SELECT outside any transaction; its write   *)
(* transaction begins with the INSERT INTO commit_history, and from there   *)
(* to conn.commit() no other connection can write.  Discovery touches only  *)
(* the cache, which no other caller changes, and is taken with the write    *)
(* step.                                                                    *)

(* conn = sqlite3.connect(DB_PATH); SELECT ... FROM nodes; rows = c.fetchall() *)
CommitRead ==
  \E p \in RosterPasses :
    /\ ~pending.active
    /\ Len(commit_history) < MaxCommits
    /\ pending' = [active |-> TRUE, rows |-> nodes, pass |-> p]
    /\ UNCHANGED <<nodes, logs, commit_history, MESHTASTIC_INFO_CACHE, now, last, preCommit,
                   POSITIONS_CACHE, REDIS_CLIENT>>

(* INSERT INTO commit_history ... conn.commit() *)
CommitWrite ==
  /\ pending.active
  /\ auto_connect_loop_at(pending.rows, pending.pass[1], pending.pass[2], pending.pass[3],
                          TRUE, RosterWorld, {0})
  /\ pending' = NoPending
  /\ UNCHANGED <<now, POSITIONS_CACHE, REDIS_CLIENT>>

NextInterleave ==
  \/ CommitRead
  \/ CommitWrite
  \/ AddNodeManual
  \/ RemoveNode
  \/ Undo

SpecInterleave == Init /\ [][NextInterleave]_vars

----------------------------------------------------------------------------
(* Properties *)

IsPass(c) == c.op = "auto_connect_loop" /\ ~c.ret.raised

CommittedPass(c) == IsPass(c) /\ c.ret.committed = "True"

UndoOk(c) == c.op = "undo_last_commit" /\ c.ret.ok

(* The ten fields a snapshot captures *)
CapturedFields(r) ==
  [node_id |-> r.node_id, long_name |-> r.long_name, role |-> r.role,
   connection |-> r.connection, last_heard |-> r.last_heard, snr |-> r.snr,
   rssi |-> r.rssi, battery |-> r.battery, uptime |-> r.uptime,
   last_updated |-> r.last_updated]

SameCaptured(t1, t2) ==
  /\ Len(t1) = Len(t2)
  /\ \A i \in 1..Len(t1) : CapturedFields(t1[i]) = CapturedFields(t2[i])

EventsOf(lg) == [i \in 1..Len(lg) |-> lg[i].event]

(* The devices of the attempts judged available, in order *)
OkDevices(attempts) ==
  LET oks == SelectSeq(attempts, LAMBDA a : a.ok)
  IN [i \in 1..Len(oks) |-> oks[i].device]

NoneAvailable(c) == \A i \in 1..Len(c.ret.attempts) : ~c.ret.attempts[i].ok

(* C1: a successful commit followed immediately by a successful undo leaves *)
(* the nodes table with the records it had before the commit, equal on      *)
(* every captured field and in the same order.                              *)
C1_RoundTrip ==
  [][ (CommittedPass(last) /\ UndoOk(last)') => SameCaptured(nodes', preCommit) ]_vars

(* C1 witness: the two-device commit over the seeded roster was undone:     *)
(* the inserted BLE row is gone and COM5 has role CLIENT again.             *)
C1_Witness ==
  /\ UndoOk(last)
  /\ EventsOf(logs) = <<"auto_connect_commit", "auto_connect_commit", "undo_last_commit">>
  /\ preCommit = <<SeedRow, TelemetryRow>>
  /\ ~HasNode(nodes, BleId)
  /\ \E i \in 1..Len(nodes) : nodes[i].node_id = ComId /\ nodes[i].role = "CLIENT"

(* C2: undo never changes commit_history, a successful undo restores the    *)
(* roster as it was before the latest successful commit (never an earlier   *)
(* one), and a successful undo right after a successful undo leaves the     *)
(* roster as it is.                                                         *)
C2_UndoSingleLevel ==
  [][ (last.op = "undo_last_commit")' =>
        /\ commit_history' = commit_history
        /\ (UndoOk(last)' => SameCaptured(nodes', LatestRow(commit_history).snapshot)
                             /\ SameCaptured(nodes', preCommit))
        /\ (UndoOk(last) /\ UndoOk(last)' => nodes' = nodes) ]_vars

(* C2 witness: two commits with different snapshots, then two undos: the    *)
(* roster is the one before the second commit, not the one before the first *)
C2_Witness ==
  /\ UndoOk(last)
  /\ Len(commit_history) = 2
  /\ commit_history[1].snapshot # commit_history[2].snapshot
  /\ Len(logs) >= 2
  /\ logs[Len(logs) - 1].event = "undo_last_commit"
  /\ logs[Len(logs)].event = "undo_last_commit"
  /\ SameCaptured(nodes, commit_history[2].snapshot)
  /\ ~SameCaptured(nodes, commit_history[1].snapshot)

(* C3: with no commit_history row and a storage layer that does not raise,  *)
(* undo returns ok = false with the reason 'No commit history available'    *)
(* and leaves nodes, commit_history and logs unchanged.                     *)
C3_UndoNoHistory ==
  [][ ((last.op = "undo_last_commit")' /\ commit_history = <<>> /\ ~last'.args.fault) =>
        /\ last'.ret.ok = FALSE
        /\ last'.ret.reason = "No commit history available"
        /\ UNCHANGED <<nodes, commit_history, logs>> ]_vars

(* C3 witness: undo was refused on a non-empty roster with no history *)
C3_Witness ==
  /\ last.op = "undo_last_commit"
  /\ last.ret.reason = "No commit history available"
  /\ commit_history = <<>>
  /\ nodes # <<>>

(* C4: after a successful undo the nodes table holds exactly the records of *)
(* the latest snapshot, in snapshot order, every captured field verbatim.   *)
C4_UndoRestoresSnapshot ==
  UndoOk(last) =>
    LET snapshot == commit_history[Len(commit_history)].snapshot
    IN /\ Len(nodes) = Len(snapshot)
       /\ \A i \in 1..Len(nodes) : CapturedFields(nodes[i]) = snapshot[i]

(* C4 witness: after the commit Z was added and COM5 removed; the undo      *)
(* removed Z and brought COM5 back.                                         *)
C4_Witness ==
  /\ UndoOk(last)
  /\ EventsOf(logs) = <<"add_node_manual", "remove_node_manual", "undo_last_commit">>
  /\ HasNode(nodes, ComId)
  /\ ~HasNode(nodes, ZId)

(* C5: when a statement of the commit's try block raises, nodes and logs    *)
(* are as before the pass and the summary carries commit_error and no       *)
(* committed key.                                                           *)
C5_CommitAllOrNothing ==
  [][ ((last.op = "auto_connect_loop")' /\ last'.args.auto_commit
        /\ last'.args.fault = "commit") =>
        /\ nodes' = nodes
        /\ logs' = logs
        /\ ~last'.ret.raised
        /\ last'.ret.commit_error
        /\ last'.ret.committed = "absent" ]_vars

(* C5 witness: a commit of two devices over a non-empty roster failed *)
C5_Witness ==
  /\ last.op = "auto_connect_loop"
  /\ last.args.fault = "commit"
  /\ last.ret.commit_error
  /\ Len(last.ret.allocations.allocated) = 2
  /\ nodes # <<>>

(* C6: a pass with auto_commit false leaves nodes, commit_history and logs  *)
(* unchanged and returns the proposed allocation with committed = False.    *)
C6_DryRunFrame ==
  [][ ((last.op = "auto_connect_loop")' /\ ~last'.args.auto_commit) =>
        /\ UNCHANGED <<nodes, commit_history, logs>>
        /\ ~last'.ret.raised
        /\ last'.ret.committed = "False"
        /\ ~last'.ret.commit_error
        /\ Len(last'.ret.attempts) = Len(last'.args.device_candidates)
        /\ (~NoneAvailable(last') => last'.ret.allocations.allocated # <<>>) ]_vars

(* C6 witness: a dry run over a used database proposed two devices *)
C6_Witness ==
  /\ IsPass(last)
  /\ ~last.args.auto_commit
  /\ Len(last.ret.allocations.allocated) = 2
  /\ logs # <<>>
  /\ commit_history # <<>>

(* C7: in mode 'auto' the attempts list has one entry per candidate in      *)
(* candidate order, the primary is the first candidate judged available and *)
(* the secondaries are the remaining available candidates in order.         *)
C7_AutoAllocation ==
  (IsPass(last) /\ last.args.allocation_mode = "auto") =>
    LET c == last.args.device_candidates
        at == last.ret.attempts
        ok == { i \in 1..Len(at) : at[i].ok }
        a == last.ret.allocations
    IN /\ Len(at) = Len(c)
       /\ \A i \in 1..Len(at) : at[i].device = c[i]
       /\ IF ok = {} THEN a.main = NullStr /\ a.routers = <<>>
          ELSE LET first == CHOOSE i \in ok : \A j \in ok : i <= j
                   rest == SelectSeq(SubSeq(at, first + 1, Len(at)), LAMBDA x : x.ok)
               IN /\ a.main = c[first]
                  /\ a.routers = [i \in 1..Len(rest) |-> rest[i].device]

(* C7 witness: the first candidate was not available, the other two were *)
C7_Witness ==
  /\ IsPass(last)
  /\ last.args.allocation_mode = "auto"
  /\ last.args.device_candidates = <<ZId, BleId, ComId>>
  /\ ~last.ret.attempts[1].ok
  /\ last.ret.allocations.main = BleId
  /\ last.ret.allocations.routers = <<ComId>>

(* C8: in mode 'manual' with a main_id the primary is main_id whether or    *)
(* not it was probed or available, and the secondaries are the available    *)
(* candidates other than main_id, in order.                                 *)
C8_ManualAllocation ==
  (IsPass(last) /\ last.args.allocation_mode = "manual" /\ TruthyStr(last.args.main_id)) =>
    /\ last.ret.allocations.main = last.args.main_id
    /\ last.ret.allocations.routers =
         SelectSeq(OkDevices(last.ret.attempts), LAMBDA d : d # last.args.main_id)

(* C8 witness: main_id COM5 was probed and not available, and is the        *)
(* primary; the secondaries are the two available candidates.               *)
C8_Witness ==
  /\ IsPass(last)
  /\ last.args.allocation_mode = "manual"
  /\ last.args.main_id = ComId
  /\ last.args.device_candidates = <<BleId, ComId, ZId>>
  /\ ~last.ret.attempts[2].ok
  /\ last.ret.allocations.main = ComId
  /\ last.ret.allocations.routers = <<BleId, ZId>>

(* C9 as stated: with no candidate available there is no primary, there are *)
(* no secondaries and nothing is allocated, in every mode and for every     *)
(* main_id, and no error is reported.                                       *)
C9_Original ==
  (IsPass(last) /\ NoneAvailable(last)) =>
    /\ last.ret.allocations.main = NullStr
    /\ last.ret.allocations.routers = <<>>
    /\ last.ret.allocations.allocated = <<>>
    /\ ~last.ret.commit_error

(* C9: with no candidate available there are no secondaries and no error is *)
(* reported; in mode 'manual' with a main_id the primary is main_id and it  *)
(* is the one allocated device, with role ROUTER; otherwise there is no     *)
(* primary and nothing is allocated.                                        *)
C9_NoneAvailable ==
  (IsPass(last) /\ NoneAvailable(last)) =>
    /\ last.ret.allocations.routers = <<>>
    /\ ~last.ret.commit_error
    /\ IF last.args.allocation_mode = "manual" /\ TruthyStr(last.args.main_id)
       THEN /\ last.ret.allocations.main = last.args.main_id
            /\ Len(last.ret.allocations.allocated) = 1
            /\ last.ret.allocations.allocated[1].id = last.args.main_id
            /\ last.ret.allocations.allocated[1].role = "ROUTER"
       ELSE /\ last.ret.allocations.main = NullStr
            /\ last.ret.allocations.allocated = <<>>

(* C9 witness: a committed manual pass over two candidates, none available, *)
(* wrote main_id Z to the roster.                                           *)
C9_Witness ==
  /\ CommittedPass(last)
  /\ NoneAvailable(last)
  /\ Len(last.args.device_candidates) = 2
  /\ last.args.main_id = ZId
  /\ last.ret.allocations.main = ZId
  /\ \E i \in 1..Len(nodes) : nodes[i].node_id = ZId /\ nodes[i].role = "ROUTER"

(* C10: every pass with auto_commit true whose storage does not fail        *)
(* reports committed = True and appends exactly one commit_history row,     *)
(* also for an empty allocation, which changes no roster row; a pass that   *)
(* does not commit appends none.                                            *)
C10_CommitAppendsOneRow ==
  [][ (last.op = "auto_connect_loop")' =>
        /\ (last'.args.auto_commit /\ last'.args.fault = "none" => CommittedPass(last)')
        /\ (CommittedPass(last)' =>
              /\ Len(commit_history') = Len(commit_history) + 1
              /\ SubSeq(commit_history', 1, Len(commit_history)) = commit_history
              /\ SameCaptured(nodes, commit_history'[Len(commit_history')].snapshot)
              /\ (last'.ret.allocations.allocated = <<>> => nodes' = nodes /\ logs' = logs))
        /\ (~CommittedPass(last)' => commit_history' = commit_history) ]_vars

(* C10 witness: a second committed pass with an empty allocation over a     *)
(* non-empty roster                                                         *)
C10_Witness ==
  /\ CommittedPass(last)
  /\ last.ret.allocations.allocated = <<>>
  /\ Len(commit_history) = 2
  /\ nodes # <<>>

(* The identifiers a commit processes: the primary, then the secondaries *)
Processed(a) ==
  SelectSeq((IF TruthyStr(a.main) THEN <<a.main>> ELSE <<>>) \o a.routers,
            LAMBDA d : TruthyStr(d))

IdsOf(tbl) == {tbl[i].node_id : i \in 1..Len(tbl)}

(* What a successful commit does to the roster, whatever roles it gives:    *)
(* the log names the processed devices in order, known devices are updated  *)
(* in place, unknown ones are appended once in the order of their first     *)
(* processing, and unnamed records keep every field, also in the snapshot.  *)
CommitUpserts(before, after, lg, snapshot, a) ==
  LET ids == Processed(a)
      new == SelectSeq(ids, LAMBDA d : d \notin IdsOf(before))
      k == Len(lg) - Len(ids)
  IN /\ k >= 0
     /\ \A j \in 1..Len(ids) :
          /\ lg[k + j].event = "auto_connect_commit"
          /\ lg[k + j].details.id = ids[j]
     /\ Len(after) >= Len(before)
     /\ \A i \in 1..Len(before) :
          /\ after[i].node_id = before[i].node_id
          /\ before[i].node_id \notin {ids[j] : j \in 1..Len(ids)} =>
               after[i] = before[i] /\ snapshot[i] = CapturedFields(before[i])
          /\ before[i].node_id \in {ids[j] : j \in 1..Len(ids)} =>
               after[i] = [before[i] EXCEPT !.role = after[i].role,
                                            !.long_name = before[i].node_id,
                                            !.connection = after[i].connection]
     /\ IdsOf(after) = IdsOf(before) \cup {ids[j] : j \in 1..Len(ids)}
     /\ Len(after) = Len(before) + Cardinality({new[j] : j \in 1..Len(new)})
     /\ \A i, j \in (Len(before) + 1)..Len(after) :
          i < j => \E x, y \in 1..Len(new) :
                     /\ x < y /\ new[x] = after[i].node_id /\ new[y] = after[j].node_id
                     /\ \A z \in 1..(y - 1) : new[z] # new[y]

RoleOf(tbl, node_id) == tbl[CHOOSE i \in 1..Len(tbl) : tbl[i].node_id = node_id].role

C12_Original ==
  [][ CommittedPass(last)' =>
        Len(logs') = Len(logs) + Len(last'.ret.allocations.allocated) + 1 ]_vars

(* C12: a successful commit that upserts k devices appends exactly k audit  *)
(* log entries, one auto_connect_commit entry per upsert in the order of    *)
(* the upserts, and no entry summarizing the allocation: the summary is     *)
(* kept in the commit_history row only.                                     *)
C12_CommitLogEntries ==
  [][ CommittedPass(last)' =>
        LET allocated == last'.ret.allocations.allocated
            row == commit_history'[Len(commit_history')]
        IN /\ Len(logs') = Len(logs) + Len(allocated)
           /\ SubSeq(logs', 1, Len(logs)) = logs
           /\ \A j \in 1..Len(allocated) :
                /\ logs'[Len(logs) + j].event = "auto_connect_commit"
                /\ logs'[Len(logs) + j].details.id = allocated[j].id
                /\ logs'[Len(logs) + j].details.role = allocated[j].role
           /\ row.summary = last'.ret.allocations ]_vars

(* C12 witness: after one manual add, a commit of two devices left three    *)
(* log entries                                                              *)
C12_Witness ==
  /\ CommittedPass(last)
  /\ Len(last.ret.allocations.allocated) = 2
  /\ EventsOf(logs) = <<"add_node_manual", "auto_connect_commit", "auto_connect_commit">>

(* Case-insensitive occurrence of a token in a text *)
Folded(s) ==
  [i \in 1..Len(s) |->
     IF \E k \in 1..26 : UpperChars[k] = s[i]
     THEN LowerChars[CHOOSE k \in 1..26 : UpperChars[k] = s[i]] ELSE s[i]]

Occurs(token, text) ==
  \E i \in 1..(Len(text) - Len(token) + 1) :
    \A j \in 1..Len(token) : Folded(text)[i + j - 1] = Folded(token)[j]

IsValidation(c) == c.op = "validate_candidate"

(* The output is JSON for a dict with key 'node' or 'nodes' *)
IsPayload(out) ==
  out.s \in {"{\"nodes\": {\"%s\": {\"user\": {}}}}", "{\"nodes\": {}}",
             "{\"nodes\": [1]}"}

(* C13: when every probe attempt of every variant returned empty output,    *)
(* validate_candidate returns ok = false, the reason 'No meshtastic node    *)
(* info returned after retries' and raw equal to the last output observed.  *)
C13_NoOutputNoSuccess ==
  (IsValidation(last) /\ \A i \in 1..Len(last.ret.probes) : last.ret.probes[i].out.s = "") =>
    /\ ~last.ret.ok
    /\ last.ret.probes # <<>> =>
         /\ last.ret.reason = "No meshtastic node info returned after retries"
         /\ last.ret.raw = last.ret.probes[Len(last.ret.probes)].out

(* C13 witness: all six variants of the BLE address were probed three times *)
(* each, every output was empty, and validation failed                      *)
C13_Witness ==
  /\ IsValidation(last)
  /\ last.args.device = BleId
  /\ Len(last.ret.probes) = 18
  /\ \A i \in 1..18 : last.ret.probes[i].out.s = ""
  /\ ~last.ret.ok

(* C14: when expected is supplied and no probe output contains it           *)
(* case-insensitively, validate_candidate returns ok = false, also for a    *)
(* well-formed device-info payload.                                         *)
C14_ExpectedMissing ==
  (/\ IsValidation(last)
   /\ last.args.expected \notin {NullStr, <<>>}
   /\ \A i \in 1..Len(last.ret.probes) :
        ~Occurs(last.args.expected, Render(last.ret.probes[i].out))) =>
    ~last.ret.ok

(* C14 witness: a well-formed payload for the device came back, it does not *)
(* name the expected identifier, and validation failed                      *)
C14_Witness ==
  /\ IsValidation(last)
  /\ last.args.expected = ZId
  /\ last.ret.probes # <<>>
  /\ IsPayload(last.ret.raw)
  /\ last.ret.reason = "JSON returned but expected identifier not found"
  /\ ~last.ret.ok

(* C15 as stated: validate_candidate returns a result that carries all four *)
(* fields ok, reason, raw and parsed on every exit path, including the      *)
(* early serial-port failure exits.                                         *)
C15_Original ==
  IsValidation(last) => last.ret.keys = {"ok", "reason", "raw", "parsed"}

(* C16 as stated: for a serial identifier whose open/close check fails the  *)
(* open is retried up to 3 times with delays 0.5 s, 1.0 s, 1.5 s before     *)
(* ok = false 'Could not open serial port after retries' is returned, and a *)
(* port whose first open fails and whose second open succeeds is probed.    *)
C16_Original ==
  (/\ IsValidation(last)
   /\ IsCom(last.args.device)
   /\ last.args.serial.import /\ last.args.serial.ctor) =>
    LET serial == last.args.serial
    IN /\ (~serial.open /\ serial.retries[1]) => last.ret.probes # <<>>
       /\ (~last.ret.ok /\ last.ret.probes = <<>>) =>
            /\ last.ret.reason = "Could not open serial port after retries: %s"
            /\ last.ret.sleeps = <<5, 10, 15>>

(* C17: for an identifier starting with COM, if the serial module is        *)
(* unavailable or the port cannot be opened, validate_candidate returns     *)
(* ok = false with a reason naming pyserial or the open failure and no      *)
(* probe is invoked: probing starts only after the check has succeeded.     *)
C17_NoProbeBeforeLiveness ==
  (IsValidation(last) /\ IsCom(last.args.device)) =>
    LET serial == last.args.serial
        live == /\ serial.import /\ serial.ctor /\ serial.open
                /\ \E k \in 1..3 : serial.retries[k]
    IN /\ ~live =>
            /\ ~last.ret.ok
            /\ last.ret.probes = <<>>
            /\ last.ret.reason \in {"pyserial not available", "pyserial not installed",
                                    "Could not open COM port: %s",
                                    "Could not open serial port after retries: %s"}
       /\ last.ret.probes # <<>> => live /\ last.ret.opens >= 1

(* C17 witness: the port opened once and then failed three times; no probe *)
C17_Witness ==
  /\ IsValidation(last)
  /\ last.args.device = ComId
  /\ last.args.serial.open
  /\ last.ret.opens = 3
  /\ last.ret.reason = "Could not open serial port after retries: %s"
  /\ last.ret.probes = <<>>

(* C18: if earlier probe attempts return empty output and a later attempt   *)
(* returns a device-info payload, validate_candidate returns ok = true with *)
(* raw equal to that output: with expected, when the payload names it       *)
(* case-insensitively, 'Found expected node in JSON'; without expected,     *)
(* 'Found node info'.                                                       *)
C18_LaterPayload ==
  IsValidation(last) =>
    \A i \in 1..Len(last.ret.probes) :
      (/\ IsPayload(last.ret.probes[i].out)
       /\ \A j \in 1..(i - 1) : last.ret.probes[j].out.s = "") =>
        IF last.args.expected \in {NullStr, <<>>}
        THEN /\ last.ret.ok
             /\ last.ret.reason = "Found node info"
             /\ last.ret.raw = last.ret.probes[i].out
        ELSE Occurs(last.args.expected, Render(last.ret.probes[i].out)) =>
               /\ last.ret.ok
               /\ last.ret.reason = "Found expected node in JSON"
               /\ last.ret.raw = last.ret.probes[i].out

(* C18 witness: six empty outputs from the first two variants, then the     *)
(* payload at the first attempt of the third variant; the expected          *)
(* identifier differs from the payload's in case                            *)
C18_Witness ==
  /\ IsValidation(last)
  /\ last.args.device = BleId
  /\ last.args.expected = <<"A","1","B","2">>
  /\ Len(last.ret.probes) = 7
  /\ \A j \in 1..6 : last.ret.probes[j].out.s = ""
  /\ last.ret.probes[7].device = <<"a","1","b","2">>
  /\ IsPayload(last.ret.probes[7].out)
  /\ last.ret.reason = "Found expected node in JSON"
  /\ last.ret.ok

(* C19 as stated: a tool that is not installed is reported as 'meshtastic   *)
(* CLI not found', and neither validate_candidate returns ok = true nor     *)
(* auto_connect_loop counts the candidate as available on the strength of   *)
(* the output such a tool leaves.                                           *)
C19_Original ==
  /\ IsValidation(last) =>
       ((\A i \in 1..Len(last.ret.probes) : last.ret.probes[i].out = OutErrno) =>
          ~last.ret.ok)
  /\ IsPass(last) =>
       \A i \in 1..Len(last.ret.attempts) :
         last.ret.attempts[i].ok => last.ret.attempts[i].raw.raw # OutErrno

IsGetInfo(c) == c.op = "get_meshtastic_info"

CacheKeyOf(device) == IF device \in {NullStr, <<>>} THEN GlobalKey ELSE device

(* C20: get_meshtastic_info(device, ttl) probes exactly when the key has no *)
(* entry or the entry's age is at least ttl; otherwise it returns the       *)
(* stored parsed result, whatever it is, without probing and without        *)
(* changing the cache. After a probe the key maps to the fresh result with  *)
(* the current time, and the entries of all other keys are unchanged.       *)
C20_CacheRule ==
  [][ (now' = now /\ IsGetInfo(last')) =>
        LET c == last'
            key == CacheKeyOf(c.args.device)
            old == MESHTASTIC_INFO_CACHE
            miss == key \notin DOMAIN old \/ now - old[key].ts >= c.args.ttl
            fresh == parse_meshtastic_info(
                       run_cli_command(c.args.w, IF c.args.device = NullStr
                                                 THEN <<>> ELSE c.args.device))
        IN /\ c.ret.probed <=> miss
           /\ ~miss => /\ c.ret.parsed = old[key].parsed
                       /\ MESHTASTIC_INFO_CACHE' = old
           /\ miss => /\ c.ret.parsed = fresh
                      /\ DOMAIN MESHTASTIC_INFO_CACHE' = DOMAIN old \cup {key}
                      /\ MESHTASTIC_INFO_CACHE'[key] = [ts |-> now, parsed |-> fresh]
                      /\ \A k \in DOMAIN old \ {key} : MESHTASTIC_INFO_CACHE'[k] = old[k]
    ]_vars

(* C20 witness: an entry of age ttl - 1 holding the result of an empty      *)
(* output was returned without a probe, although the tool would now answer, *)
(* and an entry of another key is in the cache                              *)
C20_Witness ==
  /\ IsGetInfo(last)
  /\ last.args.device = ZId
  /\ last.args.ttl = MESHTASTIC_INFO_CACHE_TTL
  /\ last.args.w = World({<<>>, ZId}, "nodes")
  /\ last.args.t = now
  /\ ~last.ret.probed
  /\ ZId \in DOMAIN MESHTASTIC_INFO_CACHE
  /\ now - MESHTASTIC_INFO_CACHE[ZId].ts = MESHTASTIC_INFO_CACHE_TTL - 1
  /\ last.ret.parsed = parse_meshtastic_info(OutEmpty)
  /\ GlobalKey \in DOMAIN MESHTASTIC_INFO_CACHE

(* C21: whatever becomes of the telemetry capture for an allocated device   *)
(* during a commit (no node info, a nodes entry that is not a mapping, a    *)
(* store_telemetry that cannot write because the commit holds the database  *)
(* lock), a pass with auto_commit and no storage fault ends with            *)
(* committed = True and every role upsert of the allocation in the roster.  *)
C21_TelemetryNeverFailsCommit ==
  (IsPass(last) /\ last.args.auto_commit /\ last.args.fault = "none") =>
    /\ last.ret.committed = "True"
    /\ ~last.ret.commit_error
    /\ \A i \in 1..Len(last.ret.allocations.allocated) :
         \E k \in 1..Len(nodes) :
           /\ nodes[k].node_id = last.ret.allocations.allocated[i].id
           /\ nodes[k].role = last.ret.allocations.allocated[i].role

(* C21 witness: a committed pass whose first allocated device answered with *)
(* a nodes entry that is a list, and whose second answered the same way     *)
C21_Witness ==
  /\ CommittedPass(last)
  /\ Len(last.ret.allocations.allocated) = 2
  /\ \A i \in 1..Len(last.ret.attempts) :
       /\ last.ret.attempts[i].ok
       /\ last.ret.attempts[i].raw.tag = "nodes"
       /\ last.ret.attempts[i].raw.nodes.t = "list"

(* C22 as stated: a storage failure at any step of a pass with auto_commit  *)
(* (the read of the roster, the insert of the commit_history row, an upsert *)
(* or a log insert) makes auto_connect_loop return a summary carrying       *)
(* commit_error; no storage failure reaches the caller as an exception.     *)
C22_Original ==
  (/\ last.op = "auto_connect_loop"
   /\ last.args.auto_commit
   /\ last.args.fault # "none") =>
    (~last.ret.raised /\ last.ret.commit_error)

(* C23 as stated: a failure of a candidate scanner does not abort the       *)
(* discovery pass: when scan_com_ports reports its error value or           *)
(* scan_ble_devices reports an error, the commit pass still runs            *)
(* auto_connect_loop over the candidates of the other scanner and returns   *)
(* a summary.                                                               *)
C23_Original ==
  (/\ last.op = "api_commit"
   /\ last.args.com.t = "error" \/ last.args.ble.t = "error") =>
    /\ ~last.ret.raised
    /\ [i \in 1..Len(last.ret.attempts) |-> last.ret.attempts[i].device]
         = last.args.com.devices \o last.args.ble.devices

UniqueIds(tbl) == \A i, j \in 1..Len(tbl) : i # j => tbl[i].node_id # tbl[j].node_id

(* C24: node_id stays unique.  From a roster without repeated node_ids, no  *)
(* sequence of add_node_manual, remove_node, committed passes (also over    *)
(* candidate lists that repeat an identifier) and undo_last_commit leaves   *)
(* two records with the same node_id; add_node_manual of a node_id already  *)
(* in the roster returns 'duplicate' and changes neither roster nor log.    *)
C24_UniqueNodeIds ==
  /\ [] UniqueIds(nodes)
  /\ [][ (/\ last' # last
          /\ last'.op = "add_node_manual"
          /\ HasNode(nodes, last'.args.node_id)) =>
           /\ last'.ret.value = "duplicate"
           /\ nodes' = nodes
           /\ logs' = logs ]_vars

(* C24 witness: a manually added node is in the roster and a pass over a    *)
(* candidate list that names one device twice has been committed            *)
C24_Witness ==
  /\ CommittedPass(last)
  /\ Len(last.ret.allocations.allocated) = 2
  /\ last.ret.allocations.allocated[1].id = last.ret.allocations.allocated[2].id
  /\ HasNode(nodes, ZId)
  /\ HasNode(nodes, last.ret.allocations.main)
  /\ UniqueIds(nodes)

(* s without its leading and trailing blanks *)
Trimmed(s) ==
  IF \A i \in 1..Len(s) : s[i] = " " THEN <<>>
  ELSE LET lo == CHOOSE i \in 1..Len(s) : s[i] # " " /\ \A j \in 1..(i - 1) : s[j] = " "
           hi == CHOOSE i \in 1..Len(s) : s[i] # " " /\ \A j \in (i + 1)..Len(s) : s[j] = " "
       IN SubSeq(s, lo, hi)

(* The six forms of an address a, in the order of the code *)
SixForms(a) ==
  LET bare == SelectSeq(a, LAMBDA c : c \notin {":", "-"})
  IN << a, upper(bare), lower(bare), upper(JoinPairs(bare)),
        <<"b","l","e",":">> \o a, <<"b","l","e",":">> \o bare >>

(* res is forms with every later duplicate dropped *)
FirstOccurrences(res, forms) ==
  LET first(v) == CHOOSE i \in 1..Len(forms) : forms[i] = v /\ \A j \in 1..(i - 1) : forms[j] # v
  IN /\ {res[i] : i \in 1..Len(res)} = {forms[i] : i \in 1..Len(forms)}
     /\ \A i, j \in 1..Len(res) : i < j => res[i] # res[j] /\ first(res[i]) < first(res[j])

IsVariants(c) == c.op = "generate_ble_variants"

(* C25 as stated: for every address a containing a separator,               *)
(* generate_ble_variants(a) is [a, no-separator uppercase, no-separator     *)
(* lowercase, re-colonized uppercase, 'ble:'+a, 'ble:'+no-separator] with   *)
(* later duplicates dropped; the original string is the first element.      *)
C25_Original ==
  IsVariants(last) =>
    /\ last.ret.variants[1] = last.args.address
    /\ FirstOccurrences(last.ret.variants, SixForms(last.args.address))

(* C25: for every address containing a separator, with a the address        *)
(* without its surrounding whitespace, generate_ble_variants returns the    *)
(* six forms of a with later duplicates dropped: a is the first element, no *)
(* entry occurs twice, and the surviving entries keep the order of the      *)
(* forms.                                                                   *)
C25_VariantsOfStripped ==
  IsVariants(last) =>
    /\ last.ret.variants[1] = Trimmed(last.args.address)
    /\ FirstOccurrences(last.ret.variants, SixForms(Trimmed(last.args.address)))

(* C25 witness: a padded address one of whose forms repeats an earlier one *)
C25_Witness ==
  /\ IsVariants(last)
  /\ last.args.address # Trimmed(last.args.address)
  /\ Len(last.ret.variants) = 5
  /\ last.ret.variants[1] = <<"B", ":">>

IsPositions(c) == c.op = "api_nodes_positions"

(* C26: when the configured Redis client raises on get and setex and the    *)
(* in-process positions cache is expired, a request to /api/nodes/positions *)
(* that can read the nodes table answers 200 with ok = true and the         *)
(* positions of the records whose gps_lat and gps_lon are both non-null.    *)
C26_RedisFailureFallback ==
  [][ (/\ IsPositions(last')
       /\ now' = now
       /\ last'.args.t = now
       /\ ~last'.args.fault
       /\ REDIS_CLIENT.mode = "bad"
       /\ ~(POSITIONS_CACHE.set /\ now - POSITIONS_CACHE.ts < 5)) =>
        /\ last'.ret.status = 200
        /\ last'.ret.ok
        /\ LET located == SelectSeq(nodes, LAMBDA r : r.gps_lat # <<>> /\ r.gps_lon # <<>>)
           IN /\ Len(last'.ret.positions) = Len(located)
              /\ \A i \in 1..Len(located) :
                   /\ last'.ret.positions[i].node_id = located[i].node_id
                   /\ last'.ret.positions[i].gps_lat = located[i].gps_lat
                   /\ last'.ret.positions[i].gps_lon = located[i].gps_lon
    ]_vars

(* C26 witness: with a Redis client that raises, a request at least five    *)
(* seconds after the start read one position from the nodes table, which    *)
(* also holds a record without position                                     *)
C26_Witness ==
  /\ IsPositions(last)
  /\ REDIS_CLIENT.mode = "bad"
  /\ last.args.t = now
  /\ now >= 5
  /\ POSITIONS_CACHE.set /\ POSITIONS_CACHE.ts = now
  /\ last.ret.status = 200
  /\ Len(last.ret.positions) = 1
  /\ Len(nodes) >= 2

(* The position of a probed identifier in the variant list of the device *)
VariantIndex(device, d) ==
  LET vs == generate_ble_variants(device)
  IN IF \E k \in 1..Len(vs) : vs[k] = d THEN CHOOSE k \in 1..Len(vs) : vs[k] = d ELSE 0

(* C27 as stated: validate_candidate stops at the first variant that        *)
(* returns non-empty output: variants are probed in generate_ble_variants   *)
(* order, and once a probe has returned non-empty output no further probe,  *)
(* of that variant or of a later one, is issued.                            *)
C27_Original ==
  IsValidation(last) =>
    /\ \A i \in 1..(Len(last.ret.probes) - 1) : last.ret.probes[i].out.s = ""
    /\ \A i \in 1..(Len(last.ret.probes) - 1) :
         VariantIndex(last.args.device, last.ret.probes[i].device)
           <= VariantIndex(last.args.device, last.ret.probes[i + 1].device)

(* C28: validate_candidate always returns: each variant is probed at most 3 *)
(* times, at most 6 variants are tried, hence at most 18 probe calls; the   *)
(* sleep after failed attempt i of a variant is delay * (1 + i) with delay  *)
(* 1.0 s, and no sleep follows a successful attempt.                        *)
C28_BoundedProbing ==
  IsValidation(last) =>
    LET probes == last.ret.probes
        sleeps == last.ret.sleeps
        failed == SelectSeq([i \in 1..Len(probes) |-> i], LAMBDA i : probes[i].out.s = "")
        attempt(i) == Cardinality({j \in 1..(i - 1) : probes[j].device = probes[i].device})
        before == Len(sleeps) - Len(failed)
    IN /\ Len(probes) <= 18
       /\ Cardinality({probes[i].device : i \in 1..Len(probes)}) <= 6
       /\ \A i \in 1..Len(probes) : attempt(i) <= 2
       /\ before >= 0
       /\ \A k \in 1..Len(failed) : sleeps[before + k] = 10 + 10 * attempt(failed[k])
       /\ \A k \in 1..before : sleeps[k] \in {5, 10, 15}
       /\ ~IsCom(last.args.device) => before = 0

(* C28 witness: a silent tool and a BLE address: 18 probes, each followed   *)
(* by its sleep of 1, 2 or 3 seconds                                        *)
C28_Witness ==
  /\ IsValidation(last)
  /\ last.args.device = BleId
  /\ Len(last.ret.probes) = 18
  /\ Len(last.ret.sleeps) = 18
  /\ \A v \in 0..5 : /\ last.ret.sleeps[3 * v + 1] = 10
                     /\ last.ret.sleeps[3 * v + 2] = 20
                     /\ last.ret.sleeps[3 * v + 3] = 30

IsProbe(c) == c.op = "run_cli_command"

(* The tool prints something for identifier d in world w *)
Answers(w, d) == w.kind = "not_installed" \/ d \in w.answers

(* C29 as stated: one call of run_cli_command(args, device) performs at     *)
(* most one invocation of the external tool, with exactly the device        *)
(* identifier it was given.                                                 *)
C29_Original ==
  IsProbe(last) => last.ret.calls = <<last.args.device>>

(* C29: one call of run_cli_command(args, device) invokes the tool once     *)
(* with the identifier it was given and, only if that output is empty and   *)
(* the identifier contains a colon and is not a serial-port name, once more *)
(* for each variant of generate_ble_variants in order, up to and including  *)
(* the first variant with non-empty output: at most 7 invocations, and the  *)
(* output returned is that of the last one.                                 *)
C29_ProbeFanOut ==
  IsProbe(last) =>
    LET device == last.args.device
        w == last.args.w
        calls == last.ret.calls
        vs == generate_ble_variants(device)
        expand == /\ ~Answers(w, device)
                  /\ \E i \in 1..Len(device) : device[i] = ":"
                  /\ ~(Len(device) >= 3 /\ upper(SubSeq(device, 1, 3)) = <<"C","O","M">>)
    IN /\ calls[1] = device
       /\ Len(calls) <= 7
       /\ ~expand => Len(calls) = 1
       /\ expand =>
            /\ Len(calls) >= 2
            /\ \A k \in 2..Len(calls) : calls[k] = vs[k - 1]
            /\ \A k \in 2..(Len(calls) - 1) : ~Answers(w, calls[k])
            /\ Len(calls) - 1 < Len(vs) => Answers(w, calls[Len(calls)])
       /\ (last.ret.out.s # "") = Answers(w, calls[Len(calls)])

(* C29 witness: a BLE address the tool knows only without separators: the   *)
(* call runs the tool four times and returns the output of the fourth       *)
C29_Witness ==
  /\ IsProbe(last)
  /\ last.args.device = BleId
  /\ Len(last.ret.calls) = 4
  /\ last.ret.calls[2] = BleId
  /\ last.ret.calls[4] = <<"a","1","b","2">>
  /\ last.ret.out.s # ""

(* C30 as stated: identifier expansion is applied exactly when the          *)
(* identifier contains a colon or a hyphen and is not a serial-port name:   *)
(* validate_candidate then probes the variants of generate_ble_variants     *)
(* (all of them when none answers), and for every other identifier it       *)
(* probes only the original identifier.                                     *)
C30_Original ==
  (IsValidation(last) /\ last.ret.probes # <<>>) =>
    LET device == last.args.device
        probed == {last.ret.probes[i].device : i \in 1..Len(last.ret.probes)}
        expand == /\ \E i \in 1..Len(device) : device[i] \in {":", "-"}
                  /\ ~(Len(device) >= 3 /\ upper(SubSeq(device, 1, 3)) = <<"C","O","M">>)
        vs == generate_ble_variants(device)
    IN IF expand
       THEN /\ probed \subseteq {vs[k] : k \in 1..Len(vs)}
            /\ (\A i \in 1..Len(last.ret.probes) : last.ret.probes[i].out.s = "") =>
                 probed = {vs[k] : k \in 1..Len(vs)}
       ELSE probed = {device}

(* C31 as stated: validate_candidate returns the reason 'No meshtastic node *)
(* info returned after retries' only if every probe returned empty output,  *)
(* and whenever some probe returned non-empty output and the result is      *)
(* ok = false, the reason is an 'expected identifier not found' reason.     *)
C31_Original ==
  IsValidation(last) =>
    LET answered == \E i \in 1..Len(last.ret.probes) : last.ret.probes[i].out.s # ""
    IN /\ last.ret.reason = "No meshtastic node info returned after retries" => ~answered
       /\ (answered /\ ~last.ret.ok) =>
            last.ret.reason \in
              {"JSON returned but expected identifier not found",
               "Non-JSON output present but expected identifier not found"}

IsParse(c) == c.op = "parse_meshtastic_info"

(* The first of nodes, devices, peers that is a key of the mapping, "" when *)
(* it has none of them                                                      *)
FirstCommon(data) ==
  LET has(k) == \E i \in 1..Len(data.keys) : data.keys[i] = k
  IN IF has("nodes") THEN "nodes" ELSE IF has("devices") THEN "devices"
     ELSE IF has("peers") THEN "peers" ELSE ""

EntriesUnder(data, k) == data.vals[CHOOSE i \in 1..Len(data.keys) : data.keys[i] = k]

(* C32 as stated: on decode failure the text is returned unchanged under    *)
(* 'raw'; on decode success the entries under the first present key among   *)
(* nodes, devices, peers are returned under 'nodes'; and when decoding      *)
(* succeeds with none of those keys present, the whole decoded value        *)
(* (mapping, list or scalar) is returned under 'info'.                      *)
C32_Original ==
  IsParse(last) =>
    LET raw == last.args.raw
        data == JsonLoads(raw)
        key == IF data.t = "dict" THEN FirstCommon(data) ELSE ""
    IN IF ~data.ok THEN last.ret.has = {"raw"} /\ last.ret.raw = raw
       ELSE IF key # ""
       THEN last.ret.has = {"nodes"} /\ last.ret.nodes = EntriesUnder(data, key)
       ELSE last.ret.has = {"info"} /\ last.ret.info = data

(* C32 amended: on decode failure the text is returned unchanged under      *)
(* 'raw'; a decoded mapping whose first present key among nodes, devices,   *)
(* peers has a non-empty value gives that value under 'nodes'; a decoded    *)
(* mapping with none of those keys, or whose first present key has an empty *)
(* value, is returned whole under 'info'; a decoded value that is not a     *)
(* mapping (list, scalar) gives an empty mapping under 'nodes'.             *)
C32_ParseInfo ==
  IsParse(last) =>
    LET raw == last.args.raw
        data == JsonLoads(raw)
        key == IF data.t = "dict" THEN FirstCommon(data) ELSE ""
    IN IF ~data.ok THEN last.ret.has = {"raw"} /\ last.ret.raw = raw
       ELSE IF data.t # "dict"
       THEN last.ret.has = {"nodes"} /\ last.ret.nodes = JMember("dict", 0, <<>>)
       ELSE IF key # "" /\ EntriesUnder(data, key).n > 0
       THEN last.ret.has = {"nodes"} /\ last.ret.nodes = EntriesUnder(data, key)
       ELSE last.ret.has = {"info"} /\ last.ret.info = data

(* C32 witness: the output '[1]' decoded to a list, which has none of the   *)
(* keys, and the result carries an empty mapping under 'nodes' and no       *)
(* 'info'                                                                   *)
C32_Witness ==
  /\ IsParse(last)
  /\ last.args.raw.s = "[1]"
  /\ last.ret.has = {"nodes"}
  /\ last.ret.nodes.n = 0

(* C33 as stated: if undo_last_commit returns ok = false, the nodes table   *)
(* is identical to its contents before the call: the delete-and-reinsert    *)
(* and its audit entry form one all-or-nothing unit, so a failure after the *)
(* restore (while writing the audit entry) does not leave the roster        *)
(* replaced.                                                                *)
C33_Original ==
  [][ ((last.op = "undo_last_commit")' /\ ~last'.ret.ok) => nodes' = nodes ]_vars

(* The pass reached the try block of its commit and was rolled back *)
RolledBack(c) == c.op = "auto_connect_loop" /\ ~c.ret.raised /\ c.ret.commit_error

StoredColumns ==
  {"node_id", "long_name", "role", "connection", "last_heard", "encryption", "snr", "rssi",
   "battery", "uptime", "last_updated", "gps_lat", "gps_lon", "gps_alt", "env_json"}

(* The telemetry columns of a record *)
TelemetryFields(r) ==
  [encryption |-> r.encryption, gps_lat |-> r.gps_lat, gps_lon |-> r.gps_lon,
   gps_alt |-> r.gps_alt, env_json |-> r.env_json]

(* C35 as stated: the snapshot is a full copy of the roster: it holds every *)
(* stored field of every record (all columns except the surrogate row id),  *)
(* so a commit followed by undo also preserves the encryption, gps_lat,     *)
(* gps_lon, gps_alt and env_json values of the records that existed before  *)
(* the commit.                                                              *)
C35_Original ==
  /\ [](\A i \in 1..Len(commit_history) :
          \A j \in 1..Len(commit_history[i].snapshot) :
            DOMAIN commit_history[i].snapshot[j] = StoredColumns)
  /\ [][ (CommittedPass(last) /\ UndoOk(last)') =>
           /\ Len(nodes') = Len(preCommit)
           /\ \A i \in 1..Len(preCommit) :
                TelemetryFields(nodes'[i]) = TelemetryFields(preCommit[i]) ]_vars

(* C36 as stated: during a pass with auto_commit no probe (run_cli_command  *)
(* reached through get_meshtastic_info) is invoked between the first write  *)
(* of the commit transaction (the commit_history insert) and its commit or  *)
(* rollback, for every cache state.                                         *)
C36_Original ==
  (last.op = "auto_connect_loop" /\ last.args.auto_commit) => last.args.locked_probes = <<>>

(* C37 as stated: the snapshot stored by a successful commit equals the     *)
(* nodes table contents immediately before that commit's first roster       *)
(* mutation: no write by another caller (add_node_manual, remove_node,      *)
(* undo_last_commit) takes effect between the commit's roster read and its  *)
(* first upsert.                                                            *)
C37_Original ==
  [][ (CommittedPass(last)' /\ commit_history' # commit_history) =>
        LET snapshot == commit_history'[Len(commit_history')].snapshot
        IN /\ Len(snapshot) = Len(nodes)
           /\ \A i \in 1..Len(nodes) : snapshot[i] = CapturedFields(nodes[i]) ]_vars

(* The records of the roster that hold the primary's role *)
Primaries(tbl) == {i \in 1..Len(tbl) : tbl[i].role = "ROUTER"}

(* C38 as stated: starting from a roster with no ROUTER record, after any   *)
(* sequence of successful commits (auto or manual, with different sets of   *)
(* available candidates) at most one record of the nodes table has role     *)
(* ROUTER, and within one allocation the primary never also appears among   *)
(* the secondaries.                                                         *)
C38_Original ==
  /\ (/\ CommittedPass(last)
      /\ \A i \in 1..Len(logs) : logs[i].event = "auto_connect_commit") =>
       Cardinality(Primaries(nodes)) <= 1
  /\ IsPass(last) =>
       \A i \in 1..Len(last.ret.allocations.routers) :
         last.ret.allocations.routers[i] # last.ret.allocations.main

(* C39 as stated: every candidate that auto_connect_loop counts as          *)
(* available is one for which validate_candidate, given the same probe      *)
(* outputs and no expected token, returns ok = true, and vice versa.        *)
C39_Original ==
  last.op = "discover_and_validate" => (last.ret.available <=> last.ret.validated)

====
